---- MODULE Spec2Model ----
(***************************************************************************)
(* The retrieval-augmentation pipeline of mindverse-backend, in its two    *)
(* revisions: src/chatbot/chatbot_api.py (operators prefixed api_) and     *)
(* src/chatbot/chatbot.py (operators prefixed chatbot_).                   *)
(*                                                                         *)
(* Text is modelled by TLA+ strings, which TLC treats as sequences of      *)
(* characters: a keyword test "k in query_lower" is a real substring test. *)
(* Queries are built from letters and blanks only, for which an unescaped  *)
(* $regex (chatbot.py) and an escaped one (chatbot_api.py) select the same *)
(* documents.                                                              *)
(***************************************************************************)
EXTENDS Integers, Sequences, FiniteSets, TLC

VARIABLES rev, query, max_results, store, fault, pc, intent, calls, results,
          verbose, formatted, system_message, completion, reply, envelope,
          text, cleaned, earlier,
          argv, environ, chatbot, mongo_client, issued, main_result, printed, main_pc,
          task_data, analyzer, analysis_result, meeting_pc

\* what classification and retrieval read and write
retrievalVars == <<rev, query, max_results, store, fault, intent, calls, results, verbose>>
\* what chat builds after retrieval, and what handle_chat_request returns
chatVars == <<formatted, system_message, completion, reply, envelope>>
\* the argument and the result of clean_response_text
cleanVars == <<text, cleaned>>

\* the chat calls made before on the same instance
sessionVars == <<earlier>>
\* main of chatbot_api.py: the command line and the environment it is
\* started with, the chatbot and its client, the store queries issued (each
\* with the state of the client it was issued on), the handler's result and
\* the objects printed
mainVars == <<argv, environ, chatbot, mongo_client, issued, main_result, printed,
             main_pc>>
\* handle_analysis_request of meeting_api.py: its arguments and what it does
meetingVars == <<task_data, analyzer, analysis_result, meeting_pc>>
\* what main leaves alone
notMainVars == <<retrievalVars, chatVars, cleanVars, pc, sessionVars, meetingVars>>
\* what a single chat call leaves alone
otherVars == <<sessionVars, mainVars, meetingVars>>

vars == <<retrievalVars, chatVars, cleanVars, pc, otherVars>>

(* ------------------------------ bounds --------------------------------- *)

\* words joined into a query of the intent specification
MaxWords == 3
\* documents per collection of the store
MaxDocs == 2
\* largest max_results handed to retrieval
MaxResults == 4

(* ------------------------------ strings -------------------------------- *)

Min(a, b) == IF a < b THEN a ELSE b

UpperLetters == "ABCDEFGHIJKLMNOPQRSTUVWXYZ"
LowerLetters == "abcdefghijklmnopqrstuvwxyz"

\* the lower-case letter of each upper-case letter
LowerOf ==
    [c \in {SubSeq(UpperLetters, i, i) : i \in 1..Len(UpperLetters)} |->
        LET i == CHOOSE j \in 1..Len(UpperLetters) : SubSeq(UpperLetters, j, j) = c
        IN SubSeq(LowerLetters, i, i)]

\* one character of str.lower()
lower_char(c) == IF c \in DOMAIN LowerOf THEN LowerOf[c] ELSE c

RECURSIVE lower(_)
\* str.lower()
lower(s) == IF s = "" THEN "" ELSE lower_char(SubSeq(s, 1, 1)) \o lower(Tail(s))

\* Python's "k in s" on strings
Contains(k, s) ==
    \E i \in 1..(Len(s) - Len(k) + 1) : SubSeq(s, i, i + Len(k) - 1) = k

\* any(k in s for k in keywords)
AnyIn(keywords, s) == \E k \in keywords : Contains(k, s)

\* s[:n]
Take(s, n) == SubSeq(s, 1, Min(n, Len(s)))

RECURSIVE Flatten(_)
\* the concatenation of a sequence of sequences
Flatten(ss) == IF ss = << >> THEN << >> ELSE Head(ss) \o Flatten(Tail(ss))

IsPrefix(p, s) == Len(p) <= Len(s) /\ SubSeq(s, 1, Len(p)) = p

\* a mapping with the keys ks, each bound to v (the empty mapping for ks = {})
Mapping(ks, v) == [k \in ks |-> v]
EmptyMapping == Mapping({}, "")

(* ------------------------- intent classification ----------------------- *)

api_task_keywords ==
    {"task", "tugas", "assigned", "endpoint", "api", "authentication", "auth",
     "development", "develop", "figma", "frontend", "backend", "integration",
     "coding", "review", "onboarding"}
api_user_keywords ==
    {"user", "member", "team", "who", "role", "lead", "hr", "florence", "eris",
     "amelya", "aroliani", "python", "calista", "faisal", "lyne", "idon", "carol"}
api_forum_keywords ==
    {"post", "discussion", "forum", "diskusi", "pompia", "tutorial", "wifi",
     "maintenance", "lunch"}
comment_keywords == {"comment", "komentar"}

\* api_status_map with the Done sub-group moved to the front
api_status_map_done_first ==
    << [status |-> "Done", keywords |-> {"done", "selesai", "completed", "finished", "complete"}],
       [status |-> "In Progress", keywords |-> {"progress", "sedang", "ongoing", "berlangsung"}],
       [status |-> "ToDo", keywords |-> {"todo", "to do", "belum", "pending", "waiting"}],
       [status |-> "Review", keywords |-> {"review", "checking", "direview"}] >>

\* status_map, in the insertion order the loop walks it
api_status_map ==
    << [status |-> "In Progress", keywords |-> {"progress", "sedang", "ongoing", "berlangsung"}],
       [status |-> "ToDo", keywords |-> {"todo", "to do", "belum", "pending", "waiting"}],
       [status |-> "Done", keywords |-> {"done", "selesai", "completed", "finished", "complete"}],
       [status |-> "Review", keywords |-> {"review", "checking", "direview"}] >>

\* status_filters without the break: the last sub-group with a keyword wins
status_filters_last_wins(status_map, ql) ==
    LET hits == {i \in 1..Len(status_map) : AnyIn(status_map[i].keywords, ql)}
    IN IF hits = {} THEN EmptyMapping
       ELSE LET last == CHOOSE i \in hits : \A j \in hits : i >= j
            IN Mapping({"progressStatus"}, status_map[last].status)

\* status_filters writing a ToDo filter when no status keyword occurs
status_filters_default_todo(status_map, ql) ==
    LET hits == {i \in 1..Len(status_map) : AnyIn(status_map[i].keywords, ql)}
    IN IF hits = {} THEN Mapping({"progressStatus"}, "ToDo")
       ELSE LET first == CHOOSE i \in hits : \A j \in hits : i <= j
            IN Mapping({"progressStatus"}, status_map[first].status)

\* the filters the status loop writes: the first sub-group with a keyword in ql
status_filters(status_map, ql) ==
    LET hits == {i \in 1..Len(status_map) : AnyIn(status_map[i].keywords, ql)}
    IN IF hits = {} THEN EmptyMapping
       ELSE LET first == CHOOSE i \in hits : \A j \in hits : i <= j
            IN Mapping({"progressStatus"}, status_map[first].status)

\* api_analyze_query_intent testing the user keywords before the task keywords
api_analyze_query_intent_users_first(q) ==
    LET ql == lower(q)
    IN IF AnyIn(api_user_keywords, ql)
       THEN [type |-> "users", filters |-> EmptyMapping]
       ELSE IF AnyIn(api_task_keywords, ql)
       THEN [type |-> "tasks", filters |-> status_filters(api_status_map, ql)]
       ELSE IF AnyIn(api_forum_keywords, ql)
       THEN [type |-> "posts", filters |-> EmptyMapping]
       ELSE IF AnyIn(comment_keywords, ql)
       THEN [type |-> "comments", filters |-> EmptyMapping]
       ELSE [type |-> "general", filters |-> EmptyMapping]

\* api_analyze_query_intent running the status loop for the users type too
api_analyze_query_intent_status_for_users(q) ==
    LET ql == lower(q)
    IN IF AnyIn(api_task_keywords, ql)
       THEN [type |-> "tasks", filters |-> status_filters(api_status_map, ql)]
       ELSE IF AnyIn(api_user_keywords, ql)
       THEN [type |-> "users", filters |-> status_filters(api_status_map, ql)]
       ELSE IF AnyIn(api_forum_keywords, ql)
       THEN [type |-> "posts", filters |-> EmptyMapping]
       ELSE IF AnyIn(comment_keywords, ql)
       THEN [type |-> "comments", filters |-> EmptyMapping]
       ELSE [type |-> "general", filters |-> EmptyMapping]

api_analyze_query_intent(q) ==
    LET ql == lower(q)
    IN IF AnyIn(api_task_keywords, ql)
       THEN [type |-> "tasks", filters |-> status_filters(api_status_map, ql)]
       ELSE IF AnyIn(api_user_keywords, ql)
       THEN [type |-> "users", filters |-> EmptyMapping]
       ELSE IF AnyIn(api_forum_keywords, ql)
       THEN [type |-> "posts", filters |-> EmptyMapping]
       ELSE IF AnyIn(comment_keywords, ql)
       THEN [type |-> "comments", filters |-> EmptyMapping]
       ELSE [type |-> "general", filters |-> EmptyMapping]

chatbot_specific_forum_keywords ==
    {"pompia", "tutorial", "wifi", "maintenance", "lunch", "team"}
chatbot_task_keywords == {"task", "tugas", "pekerjaan", "kerja"}
chatbot_user_keywords == {"user", "member", "team", "orang", "people"}
chatbot_post_keywords == {"post", "discussion", "forum", "diskusi"}

\* the if/elif chain over the status word lists, in its order
chatbot_status_map ==
    << [status |-> "In Progress",
        keywords |-> {"in progress", "sedang berjalan", "progress", "sedang dikerjakan",
                      "lagi dikerjakan", "ongoing", "berlangsung"}],
       [status |-> "ToDo",
        keywords |-> {"todo", "to do", "belum", "harus dikerjakan", "perlu dikerjakan",
                      "belum selesai", "belum mulai", "belum dikerjakan", "pending",
                      "need to be done", "not started", "waiting"}],
       [status |-> "Done",
        keywords |-> {"done", "selesai", "completed", "finished", "sudah selesai",
                      "sudah dikerjakan", "complete", "telah selesai"}],
       [status |-> "Review",
        keywords |-> {"review", "checking", "perlu review", "sedang direview",
                      "butuh review", "for review", "under review"}] >>

chatbot_analyze_query_intent(q) ==
    LET ql == lower(q)
    IN IF AnyIn(chatbot_specific_forum_keywords, ql)
       THEN [type |-> "posts", filters |-> EmptyMapping, specific_search |-> TRUE]
       ELSE IF AnyIn(chatbot_task_keywords, ql)
       THEN LET f == status_filters(chatbot_status_map, ql)
            IN [type |-> "tasks", filters |-> f, specific_search |-> DOMAIN f # {}]
       ELSE IF AnyIn(chatbot_user_keywords, ql)
       THEN [type |-> "users", filters |-> EmptyMapping, specific_search |-> FALSE]
       ELSE IF AnyIn(chatbot_post_keywords, ql)
       THEN [type |-> "posts", filters |-> EmptyMapping, specific_search |-> FALSE]
       ELSE IF AnyIn(comment_keywords, ql)
       THEN [type |-> "comments", filters |-> EmptyMapping, specific_search |-> FALSE]
       ELSE [type |-> "general", filters |-> EmptyMapping, specific_search |-> FALSE]

(* ------------------------------- the store ----------------------------- *)

\* A document is a function from its field names to values: a field the
\* document lacks is outside its DOMAIN, and item.get(f, d) yields d for it.
Get(item, f, d) == IF f \in DOMAIN item THEN item[f] ELSE d

Range(s) == {s[i] : i \in 1..Len(s)}

TaskDocs ==
    << [id |-> "t1", name |-> "Fix login task", description |-> "user auth endpoint",
        progressStatus |-> "In Progress", assignTo |-> <<"u1", "u9", "u2">>],
       [id |-> "t2", name |-> "Tugas forum", description |-> "Task done, comment moderation",
        progressStatus |-> "Done", dueDate |-> "2025-08-01"],
       [id |-> "t3", name |-> "Login page", description |-> "user task",
        progressStatus |-> "Done", assignTo |-> << >>] >>

UserDocs ==
    << [id |-> "u1", name |-> "Amelya", username |-> "amelya",
        email |-> "amelya@mindverse.id", isLead |-> TRUE],
       [id |-> "u2", name |-> "Super User", email |-> "login@mindverse.id",
        isLead |-> FALSE, isHR |-> TRUE],
       [id |-> "u3", name |-> "Carol", username |-> "task_user", email |-> ""] >>

PostDocs ==
    << [id |-> "p1", title |-> "Forum task done", body |-> "user login comment",
        author |-> "u1"],
       [id |-> "p2", title |-> "Wifi tutorial", body |-> "Tugas selesai forum team",
        author |-> "u7"],
       [id |-> "p3", title |-> "Lunch", body |-> "", author |-> "u2"] >>

CommentDocs ==
    << [id |-> "c1", body |-> "nice task", name |-> "Carol"],
       [id |-> "c2", body |-> "forum user comment", name |-> "Idon"],
       [id |-> "c3", body |-> "login", name |-> "Auth"] >>

\* the four collections of the mindverse database
Collections == {"tasks", "users", "posts", "comments"}

Stores ==
    {[tasks |-> Take(TaskDocs, nt), users |-> Take(UserDocs, nu),
      posts |-> Take(PostDocs, np), comments |-> Take(CommentDocs, nc)] :
        nt \in 0..MaxDocs, nu \in 0..MaxDocs, np \in {0, MaxDocs}, nc \in {0, MaxDocs}}

\* {f: {"$regex": pattern, "$options": "i"}}: the field is there and holds the
\* pattern, letter case ignored
RegexMatch(item, f, pattern) ==
    f \in DOMAIN item /\ Contains(lower(pattern), lower(item[f]))

\* {f: {"$regex": "a|b|c", "$options": "i"}}
RegexAnyMatch(item, f, alternatives) ==
    \E a \in alternatives : RegexMatch(item, f, a)

\* an exact-match filter document: every key of the filter equals the field
ExactMatch(item, filters) ==
    \A k \in DOMAIN filters : k \in DOMAIN item /\ item[k] = filters[k]

\* cursor.limit(n): a limit of 0 is no limit
CursorLimit(docs, n) == IF n = 0 THEN docs ELSE Take(docs, n)

\* What a call hands its caller: the list it returns, or an exception that
\* leaves it.
Returned(out) == [raised |-> FALSE, out |-> out]
Raised == [raised |-> TRUE, out |-> << >>]

\* list(collection.aggregate([{"$match": ..}, .., {"$limit": n}])): raises when
\* the collection faults, and when n = 0 (the $limit stage takes a positive
\* number only)
Aggregate(coll, matched, n, flt) ==
    IF coll \in flt \/ n = 0 THEN Raised ELSE Returned(Take(matched, n))

\* list(collection.find(filter).limit(n)): raises when the collection faults
FindLimit(coll, matched, n, flt) ==
    IF coll \in flt THEN Raised ELSE Returned(CursorLimit(matched, n))

\* users_collection.find_one({"_id": oid}): the user, or << >> for None
FindOneUser(st, oid) ==
    LET hit == SelectSeq(st.users, LAMBDA u : u.id = oid)
    IN IF hit = << >> THEN << >> ELSE <<hit[1]>>

RECURSIVE Join(_, _)
\* sep.join(parts)
Join(parts, sep) ==
    IF parts = << >> THEN ""
    ELSE IF Len(parts) = 1 THEN parts[1]
    ELSE parts[1] \o sep \o Join(Tail(parts), sep)

(* ------------------------ chatbot_api.py: retrieval -------------------- *)

\* the "username, else name, else default" display name of a user document
DisplayName(user, default) == Get(user, "username", Get(user, "name", default))

\* api_task_match requiring the text to match besides the filters
api_task_match_filters_and_text(item, q, filters) ==
    /\ ExactMatch(item, filters)
    /\ RegexMatch(item, "name", q) \/ RegexMatch(item, "description", q)

\* the $match of search_tasks: the filters when there are any, else the $or of
\* the text terms and the synonym terms
api_task_match(item, q, filters) ==
    IF DOMAIN filters # {}
    THEN ExactMatch(item, filters)
    ELSE LET ql == lower(q)
         IN \/ RegexMatch(item, "name", q)
            \/ RegexMatch(item, "description", q)
            \/ /\ Contains("auth", ql)
               /\ RegexAnyMatch(item, "name", {"auth", "login", "user"})
            \/ /\ Contains("endpoint", ql) \/ Contains("api", ql)
               /\ RegexAnyMatch(item, "description", {"endpoint", "api", "login"})
            \/ /\ Contains("figma", ql)
               /\ RegexAnyMatch(item, "name", {"figma", "edit"})

\* api_format_task naming every reference of assignTo, 'Unknown User' for one
\* that no user answers to
api_format_task_unresolved_named(item, st) ==
    LET refs == Get(item, "assignTo", << >>)
        assignees == [i \in 1..Len(refs) |->
                         LET user == FindOneUser(st, refs[i])
                         IN IF user # << >> THEN DisplayName(user[1], "Unknown")
                            ELSE "Unknown User"]
    IN [type |-> "task",
        name |-> Get(item, "name", "Untitled Task"),
        progressStatus |-> Get(item, "progressStatus", "No status"),
        description |-> Get(item, "description", ""),
        assignee |-> IF assignees # << >> THEN Join(assignees, ", ") ELSE "Unassigned",
        due_date |-> Get(item, "dueDate", "No deadline")]

\* one task of the aggregation, with its $lookup of assignTo in users, formatted
api_format_task(item, st) ==
    LET assignedUsers ==
            SelectSeq(st.users, LAMBDA u : u.id \in Range(Get(item, "assignTo", << >>)))
        assignees == [i \in 1..Len(assignedUsers) |-> DisplayName(assignedUsers[i], "Unknown")]
    IN [type |-> "task",
        name |-> Get(item, "name", "Untitled Task"),
        progressStatus |-> Get(item, "progressStatus", "No status"),
        description |-> Get(item, "description", ""),
        assignee |-> IF assignees # << >> THEN Join(assignees, ", ") ELSE "Unassigned",
        due_date |-> Get(item, "dueDate", "No deadline")]

\* api_search_tasks without its except clause
api_search_tasks_no_except(q, filters, limit, st, flt) ==
    LET r == Aggregate("tasks",
                       SelectSeq(st.tasks, LAMBDA item : api_task_match(item, q, filters)),
                       limit, flt)
    IN IF r.raised THEN Raised
       ELSE Returned([i \in 1..Len(r.out) |-> api_format_task(r.out[i], st)])

\* search_tasks: the except clause turns a raising aggregation into []
api_search_tasks(q, filters, limit, st, flt) ==
    LET r == Aggregate("tasks",
                       SelectSeq(st.tasks, LAMBDA item : api_task_match(item, q, filters)),
                       limit, flt)
    IN IF r.raised THEN Returned(<< >>)
       ELSE Returned([i \in 1..Len(r.out) |-> api_format_task(r.out[i], st)])

\* the queries for which search_users drops the filter
api_generic_user_queries == {"user", "users", "member", "team", "all"}

\* api_user_filter_is_empty without the generic queries
api_user_filter_is_empty_query_only(q) == q = ""

api_user_filter_is_empty(q) == q = "" \/ lower(q) \in api_generic_user_queries

api_user_match(item, q) ==
    \/ api_user_filter_is_empty(q)
    \/ RegexMatch(item, "name", q)
    \/ RegexMatch(item, "username", q)
    \/ RegexMatch(item, "email", q)

api_format_user(item) ==
    [type |-> "user",
     name |-> DisplayName(item, "User"),
     email |-> Get(item, "email", ""),
     role |-> IF Get(item, "isLead", FALSE) THEN "Lead"
              ELSE IF Get(item, "isHR", FALSE) THEN "HR" ELSE "Member"]

api_search_users(q, limit, st, flt) ==
    LET r == FindLimit("users", SelectSeq(st.users, LAMBDA item : api_user_match(item, q)),
                       limit, flt)
    IN IF r.raised THEN Returned(<< >>)
       ELSE Returned([i \in 1..Len(r.out) |-> api_format_user(r.out[i])])

post_match(item, q) == RegexMatch(item, "title", q) \/ RegexMatch(item, "body", q)

api_format_post(item, st) ==
    LET authorData == SelectSeq(st.users, LAMBDA u : "author" \in DOMAIN item /\ u.id = item.author)
    IN [type |-> "post",
        title |-> Get(item, "title", "No Title"),
        content |-> Get(item, "body", ""),
        author |-> IF authorData # << >> THEN DisplayName(authorData[1], "Unknown User")
                   ELSE "Unknown User"]

api_search_posts(q, limit, st, flt) ==
    LET r == Aggregate("posts", SelectSeq(st.posts, LAMBDA item : post_match(item, q)),
                       limit, flt)
    IN IF r.raised THEN Returned(<< >>)
       ELSE Returned([i \in 1..Len(r.out) |-> api_format_post(r.out[i], st)])

comment_match(item, q) == RegexMatch(item, "body", q) \/ RegexMatch(item, "name", q)

api_format_comment(item) ==
    [type |-> "comment",
     content |-> Get(item, "body", "No content"),
     author |-> Get(item, "name", "Unknown")]

api_search_comments(q, limit, st, flt) ==
    LET r == FindLimit("comments", SelectSeq(st.comments, LAMBDA item : comment_match(item, q)),
                       limit, flt)
    IN IF r.raised THEN Returned(<< >>)
       ELSE Returned([i \in 1..Len(r.out) |-> api_format_comment(r.out[i])])

\* one sub-query as retrieval issues it: the function called, the collection
\* it reads, its arguments, and what came back (ret.out, or an exception)
Call(fn, coll, q, filters, limit, ret) ==
    [fn |-> fn, coll |-> coll, query |-> q, filters |-> filters, limit |-> limit,
     raised |-> ret.raised, out |-> ret.out]

\* the calls made before an exception leaves the try block: all of them when
\* none raises, else those up to the first that does
Issued(cs) ==
    LET bad == {i \in 1..Len(cs) : cs[i].raised}
    IN IF bad = {} THEN cs ELSE SubSeq(cs, 1, CHOOSE i \in bad : \A j \in bad : i <= j)

\* api_tasks_calls searching the posts before the tasks
api_tasks_calls_posts_first(q, it, n, st, flt) ==
    << Call("search_posts", "posts", q, EmptyMapping, n,
            api_search_posts(q, n, st, flt)),
       Call("search_tasks", "tasks", q, it.filters, n,
            api_search_tasks(q, it.filters, n, st, flt)) >>

\* search_database, the tasks branch
api_tasks_calls(q, it, n, st, flt) ==
    << Call("search_tasks", "tasks", q, it.filters, n,
            api_search_tasks(q, it.filters, n, st, flt)) >>

\* api_users_calls searching the posts, not the tasks, after the users
api_users_calls_with_posts(q, n, st, flt) ==
    << Call("search_users", "users", q, EmptyMapping, n \div 2,
            api_search_users(q, n \div 2, st, flt)),
       Call("search_posts", "posts", q, EmptyMapping, n \div 2,
            api_search_posts(q, n \div 2, st, flt)) >>

\* search_database, the users branch: the users, then the related tasks
api_users_calls(q, n, st, flt) ==
    << Call("search_users", "users", q, EmptyMapping, n \div 2,
            api_search_users(q, n \div 2, st, flt)),
       Call("search_tasks", "tasks", q, EmptyMapping, n \div 2,
            api_search_tasks(q, EmptyMapping, n \div 2, st, flt)) >>

\* search_database, the posts branch
api_posts_calls(q, n, st, flt) ==
    << Call("search_posts", "posts", q, EmptyMapping, n,
            api_search_posts(q, n, st, flt)) >>

\* search_database, the comments branch
api_comments_calls(q, n, st, flt) ==
    << Call("search_comments", "comments", q, EmptyMapping, n,
            api_search_comments(q, n, st, flt)) >>

\* api_general_calls searching the comments as well
api_general_calls_with_comments(q, n, st, flt) ==
    << Call("search_tasks", "tasks", q, EmptyMapping, n \div 3,
            api_search_tasks(q, EmptyMapping, n \div 3, st, flt)),
       Call("search_users", "users", q, EmptyMapping, n \div 3,
            api_search_users(q, n \div 3, st, flt)),
       Call("search_posts", "posts", q, EmptyMapping, n \div 3,
            api_search_posts(q, n \div 3, st, flt)),
       Call("search_comments", "comments", q, EmptyMapping, n \div 3,
            api_search_comments(q, n \div 3, st, flt)) >>

\* search_database, the general branch: tasks, users and posts
api_general_calls(q, n, st, flt) ==
    << Call("search_tasks", "tasks", q, EmptyMapping, n \div 3,
            api_search_tasks(q, EmptyMapping, n \div 3, st, flt)),
       Call("search_users", "users", q, EmptyMapping, n \div 3,
            api_search_users(q, n \div 3, st, flt)),
       Call("search_posts", "posts", q, EmptyMapping, n \div 3,
            api_search_posts(q, n \div 3, st, flt)) >>

\* the sub-queries of search_database, in the order they are issued
api_search_calls(q, it, n, st, flt) ==
    Issued(IF it.type = "tasks" THEN api_tasks_calls(q, it, n, st, flt)
           ELSE IF it.type = "users" THEN api_users_calls(q, n, st, flt)
           ELSE IF it.type = "posts" THEN api_posts_calls(q, n, st, flt)
           ELSE IF it.type = "comments" THEN api_comments_calls(q, n, st, flt)
           ELSE api_general_calls(q, n, st, flt))

\* the outputs of a sequence of sub-queries, concatenated in issue order
Outs(cs) == Flatten([i \in 1..Len(cs) |-> cs[i].out])

AnyRaised(cs) == \E i \in 1..Len(cs) : cs[i].raised

\* api_search_return without the final slice
api_search_return_unsliced(cs, it, n) ==
    IF AnyRaised(cs) THEN << >> ELSE Outs(cs)

\* what search_database returns, given the sub-queries it issued:
\* results[:max_results] of their results, and [] from its except clause
api_search_return(cs, it, n) ==
    IF AnyRaised(cs) THEN << >> ELSE Take(Outs(cs), n)

api_search_database(q, it, n, st, flt) ==
    api_search_return(api_search_calls(q, it, n, st, flt), it, n)

(* -------------------------- chatbot.py: retrieval ---------------------- *)

\* the name search_tasks_enhanced reports for one assignee reference: the
\* find_one raises when the users collection faults, and the bare except
\* reports 'Unknown User', as a missing user does
chatbot_assignee_name(oid, st, flt) ==
    IF "users" \in flt THEN "Unknown User"
    ELSE LET user == FindOneUser(st, oid)
         IN IF user # << >> THEN DisplayName(user[1], "Unknown User") ELSE "Unknown User"

chatbot_task_match(item, q, filters) ==
    IF DOMAIN filters # {}
    THEN ExactMatch(item, filters)
    ELSE RegexMatch(item, "name", q) \/ RegexMatch(item, "description", q)

chatbot_format_task(item, st, flt) ==
    LET refs == SelectSeq(Get(item, "assignTo", << >>), LAMBDA oid : oid # "")
        assignee_names == [i \in 1..Len(refs) |-> chatbot_assignee_name(refs[i], st, flt)]
    IN [type |-> "task",
        name |-> Get(item, "name", "Untitled Task"),
        progressStatus |-> Get(item, "progressStatus", "No status"),
        description |-> Get(item, "description", ""),
        assignee |-> IF assignee_names # << >> THEN Join(assignee_names, ", ")
                     ELSE "Unassigned",
        due_date |-> Get(item, "dueDate", "No deadline"),
        created_at |-> Get(item, "createdAt", ""),
        updated_at |-> Get(item, "updatedAt", "")]

chatbot_search_tasks_enhanced(q, filters, limit, st, flt) ==
    LET r == FindLimit("tasks",
                       SelectSeq(st.tasks, LAMBDA item : chatbot_task_match(item, q, filters)),
                       limit, flt)
    IN IF r.raised THEN Returned(<< >>)
       ELSE Returned([i \in 1..Len(r.out) |-> chatbot_format_task(r.out[i], st, flt)])

\* the author of a post: a reference (an ObjectId) is looked up in users
chatbot_post_author(item, st, flt) ==
    IF "author" \notin DOMAIN item THEN "Unknown"
    ELSE IF "users" \in flt THEN "Unknown User"
    ELSE LET user == FindOneUser(st, item.author)
         IN IF user # << >> THEN DisplayName(user[1], "Unknown User") ELSE "Unknown User"

chatbot_format_post(item, st, flt) ==
    [type |-> "post",
     title |-> Get(item, "title", "No Title"),
     content |-> Get(item, "body", ""),
     author |-> chatbot_post_author(item, st, flt),
     created_at |-> Get(item, "createdAt", ""),
     raw_data |-> item]

chatbot_search_posts(q, limit, st, flt) ==
    LET r == FindLimit("posts", SelectSeq(st.posts, LAMBDA item : post_match(item, q)),
                       limit, flt)
    IN IF r.raised THEN Returned(<< >>)
       ELSE Returned([i \in 1..Len(r.out) |-> chatbot_format_post(r.out[i], st, flt)])

chatbot_user_match(item, q) == RegexMatch(item, "name", q) \/ RegexMatch(item, "email", q)

chatbot_format_user(item) ==
    [type |-> "user",
     name |-> Get(item, "name", "User"),
     email |-> Get(item, "email", ""),
     role |-> Get(item, "role", "No Role")]

chatbot_search_users(q, limit, st, flt) ==
    LET r == FindLimit("users", SelectSeq(st.users, LAMBDA item : chatbot_user_match(item, q)),
                       limit, flt)
    IN IF r.raised THEN Returned(<< >>)
       ELSE Returned([i \in 1..Len(r.out) |-> chatbot_format_user(r.out[i])])

chatbot_format_comment(item) ==
    [type |-> "comment",
     content |-> Get(item, "body", "No content"),
     author |-> Get(item, "name", "Unknown"),
     email |-> Get(item, "email", "")]

chatbot_search_comments(q, limit, st, flt) ==
    LET r == FindLimit("comments", SelectSeq(st.comments, LAMBDA item : comment_match(item, q)),
                       limit, flt)
    IN IF r.raised THEN Returned(<< >>)
       ELSE Returned([i \in 1..Len(r.out) |-> chatbot_format_comment(r.out[i])])

\* the limit of each sub-query of the general branch of search_with_intent
chatbot_general_limit == 2

\* search_with_intent, priority 1: the posts are searched first, whatever
\* the intent
chatbot_first_posts_call(q, n, st, flt) ==
    << Call("search_posts", "posts", q, EmptyMapping, n \div 2,
            chatbot_search_posts(q, n \div 2, st, flt)) >>

\* search_with_intent, the general branch: tasks, comments and users
chatbot_general_calls(q, st, flt) ==
    << Call("search_tasks_enhanced", "tasks", q, EmptyMapping, chatbot_general_limit,
            chatbot_search_tasks_enhanced(q, EmptyMapping, chatbot_general_limit, st, flt)),
       Call("search_comments", "comments", q, EmptyMapping, chatbot_general_limit,
            chatbot_search_comments(q, chatbot_general_limit, st, flt)),
       Call("search_users", "users", q, EmptyMapping, chatbot_general_limit,
            chatbot_search_users(q, chatbot_general_limit, st, flt)) >>

\* the sub-queries of search_with_intent, in the order they are issued
chatbot_search_calls(q, it, n, st, flt) ==
    Issued(chatbot_first_posts_call(q, n, st, flt) \o
           (IF it.type = "tasks"
            THEN << Call("search_tasks_enhanced", "tasks", q, it.filters, n,
                         chatbot_search_tasks_enhanced(q, it.filters, n, st, flt)) >>
            ELSE IF it.type = "users"
            THEN << Call("search_users", "users", q, EmptyMapping, n,
                         chatbot_search_users(q, n, st, flt)) >>
            ELSE IF it.type = "posts"
            THEN << Call("search_posts", "posts", q, EmptyMapping, n,
                         chatbot_search_posts(q, n, st, flt)) >>
            ELSE IF it.type = "comments"
            THEN << Call("search_comments", "comments", q, EmptyMapping, n,
                         chatbot_search_comments(q, n, st, flt)) >>
            ELSE chatbot_general_calls(q, st, flt)))

\* what search_with_intent returns, given the sub-queries it issued:
\* all_results[:max_results], and [] from its except clause; for the posts
\* intent the second posts search replaces the list built so far
chatbot_search_return(cs, it, n) ==
    IF AnyRaised(cs) THEN << >>
    ELSE Take(IF it.type = "posts" THEN cs[2].out ELSE Outs(cs), n)

chatbot_search_with_intent(q, it, n, st, flt) ==
    chatbot_search_return(chatbot_search_calls(q, it, n, st, flt), it, n)

(* ------------------------------ formatting ----------------------------- *)

\* U+2022 BULLET, the mark that opens every rendered line; a TLA+ string holds
\* ASCII only, and no text of the model holds this character otherwise
Bullet == "~"

\* the characters str.strip() and the \s of a regular expression take for
\* white space, among those the texts of the model are made of
IsSpace(c) == c \in {" ", "\t", "\n"}

RECURSIVE LStrip(_)
LStrip(s) == IF s # "" /\ IsSpace(SubSeq(s, 1, 1)) THEN LStrip(Tail(s)) ELSE s

RECURSIVE RStrip(_)
RStrip(s) ==
    IF s # "" /\ IsSpace(SubSeq(s, Len(s), Len(s)))
    THEN RStrip(SubSeq(s, 1, Len(s) - 1)) ELSE s

\* str.strip()
Strip(s) == RStrip(LStrip(s))

RECURSIVE Replace(_, _, _)
\* str.replace(old, new), for a non-empty old
Replace(s, old, new) ==
    IF Len(s) < Len(old) THEN s
    ELSE IF SubSeq(s, 1, Len(old)) = old
         THEN new \o Replace(SubSeq(s, Len(old) + 1, Len(s)), old, new)
         ELSE SubSeq(s, 1, 1) \o Replace(Tail(s), old, new)

\* s[:n] + "..." if len(s) > n else s
Ellipsis(s, n) == IF Len(s) > n THEN SubSeq(s, 1, n) \o "..." ELSE s

\* the orders list(set(labels)) may come in: each label once, the order (that
\* of a set of strings) not fixed
ListOfSet_keeping_duplicates(labels) == {labels}

ListOfSet(labels) ==
    LET S == Range(labels)
    IN {l \in [1..Cardinality(S) -> S] : Range(l) = S}

\* what a formatter returns: the tuple (context, sources), or a bare string
Pair(context, sources) == [pair |-> TRUE, context |-> context, sources |-> sources]
Bare(context) == [pair |-> FALSE, context |-> context]

\* api_task_line with the assignee clause whoever the assignee is
api_task_line_always_assigned(item) ==
    Bullet \o " Task: " \o item.name \o " (" \o item.progressStatus \o ")"
        \o " - assigned to " \o item.assignee \o "\n"

\* format_context, the line of a task (every task record holds an assignee)
api_task_line(item) ==
    Bullet \o " Task: " \o item.name \o " (" \o item.progressStatus \o ")"
        \o (IF item.assignee # "Unassigned" THEN " - assigned to " \o item.assignee ELSE "")
        \o "\n"

\* format_context, the line of one result
api_context_line(item) ==
    IF item.type = "task" THEN api_task_line(item)
    ELSE IF item.type = "user"
    THEN Bullet \o " Team Member: " \o Get(item, "name", "Unknown")
             \o " (" \o Get(item, "role", "Member") \o ")"
             \o (IF Get(item, "email", "") # "" THEN " - " \o item.email ELSE "")
             \o "\n"
    ELSE IF item.type = "post"
    THEN Bullet \o " Forum Post: '" \o Get(item, "title", "No Title") \o "' by "
             \o Get(item, "author", "Unknown") \o "\n"
    ELSE IF item.type = "comment"
    THEN Bullet \o " Comment by " \o Get(item, "author", "Unknown") \o "\n"
    ELSE ""

\* format_context, the sources a result adds
api_source_label(item) ==
    IF item.type = "task" THEN <<"Tasks Database">>
    ELSE IF item.type = "user" THEN <<"User Directory">>
    ELSE IF item.type = "post" THEN <<"Forum by " \o Get(item, "author", "Unknown")>>
    ELSE IF item.type = "comment" THEN <<"Comments by " \o Get(item, "author", "Unknown")>>
    ELSE << >>

\* api_format_context returning a bare string for no results
api_format_context_bare_on_empty(rs, query_type) ==
    IF rs = << >> THEN {Bare("")}
    ELSE LET context == Join([i \in 1..Len(rs) |-> api_context_line(rs[i])], "")
             sources == Flatten([i \in 1..Len(rs) |-> api_source_label(rs[i])])
         IN {Pair(Strip(context), l) : l \in ListOfSet(sources)}

\* format_context: the returns it may make (they differ in the order of the
\* sources only)
api_format_context(rs, query_type) ==
    IF rs = << >> THEN {Pair("", << >>)}
    ELSE LET context == Join([i \in 1..Len(rs) |-> api_context_line(rs[i])], "")
             sources == Flatten([i \in 1..Len(rs) |-> api_source_label(rs[i])])
         IN {Pair(Strip(context), l) : l \in ListOfSet(sources)}

\* the descriptions format_context_from_results never shows
chatbot_placeholder_descriptions ==
    {"N/A", "This is a test task.", "This is a test task. Hello", "just test", ""}

\* the length a description must exceed to be shown
chatbot_min_description == 5
\* the length a shown description is cut to
chatbot_max_description == 50
\* the lengths post and comment contents are cut to
chatbot_max_post_content == 100
chatbot_max_comment_content == 40

\* chatbot_description_clause cutting at the comment length
chatbot_description_clause_cut_short(raw) ==
    LET description == Strip(raw)
    IN IF /\ description # ""
          /\ description \notin chatbot_placeholder_descriptions
          /\ Len(description) > chatbot_min_description
       THEN " - " \o Ellipsis(Replace(description,
                                      "Team needs to tidy up documentation of the project code",
                                      "Team needs to tidy up project code docs"),
                              chatbot_max_comment_content)
       ELSE ""

\* format_context_from_results, query type tasks: the description clause of a
\* task line
chatbot_description_clause(raw) ==
    LET description == Strip(raw)
    IN IF /\ description # ""
          /\ description \notin chatbot_placeholder_descriptions
          /\ Len(description) > chatbot_min_description
       THEN " - " \o Ellipsis(Replace(description,
                                      "Team needs to tidy up documentation of the project code",
                                      "Team needs to tidy up project code docs"),
                              chatbot_max_description)
       ELSE ""

\* format_context_from_results, query type tasks: the line of a task
chatbot_task_line(item) ==
    Bullet \o " " \o item.name \o " (" \o item.progressStatus \o ")"
        \o (IF Get(item, "assignee", "Unassigned") # "Unassigned"
            THEN " - assigned to " \o item.assignee ELSE "")
        \o chatbot_description_clause(Get(item, "description", ""))
        \o "\n"

\* format_context_from_results, query type posts: the lines of a post
chatbot_post_lines(item) ==
    LET content == Ellipsis(Get(item, "content", ""), chatbot_max_post_content)
    IN Bullet \o " Post '" \o Get(item, "title", "Untitled Post") \o "' by "
           \o Get(item, "author", "Unknown") \o "\n"
           \o (IF Strip(content) # "" THEN "  Content: " \o content \o "\n" ELSE "")

\* format_context_from_results, query type users: the line of a user
chatbot_user_line(item) ==
    LET role == Get(item, "role", "No role specified")
    IN Bullet \o " " \o Get(item, "name", "Unknown")
           \o (IF role # "" /\ role # "No role specified" THEN " (" \o role \o ")" ELSE "")
           \o (IF Get(item, "email", "") # "" THEN " - " \o item.email ELSE "")
           \o "\n"

\* format_context_from_results, any other query type: the line of one result
chatbot_general_line(item) ==
    IF item.type = "task"
    THEN Bullet \o " Task: " \o item.name \o " (" \o item.progressStatus \o ")\n"
    ELSE IF item.type = "post"
    THEN Bullet \o " Forum Post: " \o Get(item, "title", "No Title") \o " by "
             \o Get(item, "author", "Unknown") \o "\n"
    ELSE IF item.type = "comment"
    THEN Bullet \o " Comment by " \o Get(item, "author", "Unknown") \o ": "
             \o Ellipsis(Get(item, "content", "No content"), chatbot_max_comment_content)
             \o "\n"
    ELSE IF item.type = "user"
    THEN Bullet \o " Team Member: " \o Get(item, "name", "No name") \o "\n"
    ELSE ""

\* the type of result the tasks, posts and users branches render
chatbot_rendered_type(query_type) ==
    IF query_type = "tasks" THEN "task"
    ELSE IF query_type = "posts" THEN "post"
    ELSE IF query_type = "users" THEN "user"
    ELSE "any"

\* format_context_from_results: whether the branch of query_type renders item
chatbot_renders(item, query_type) ==
    IF chatbot_rendered_type(query_type) = "any"
    THEN item.type \in {"task", "post", "comment", "user"}
    ELSE item.type = chatbot_rendered_type(query_type)

\* format_context_from_results: the header the branch of query_type opens with
chatbot_context_header(query_type) ==
    IF query_type = "tasks" THEN "Task Information:\n"
    ELSE IF query_type = "posts" THEN "Forum Posts:\n"
    ELSE IF query_type = "users" THEN "Team Members:\n"
    ELSE ""

\* format_context_from_results: the lines of one result
chatbot_context_line(item, query_type) ==
    IF ~chatbot_renders(item, query_type) THEN ""
    ELSE IF query_type = "tasks" THEN chatbot_task_line(item)
    ELSE IF query_type = "posts" THEN chatbot_post_lines(item)
    ELSE IF query_type = "users" THEN chatbot_user_line(item)
    ELSE chatbot_general_line(item)

\* format_context_from_results: the sources a result adds
chatbot_source_label(item, query_type) ==
    IF ~chatbot_renders(item, query_type) THEN << >>
    ELSE IF item.type = "task" THEN <<"Tasks Database">>
    ELSE IF item.type = "user" THEN <<"User Directory">>
    ELSE IF item.type = "post" THEN <<"Forum by " \o Get(item, "author", "Unknown")>>
    ELSE <<"Comments by " \o Get(item, "author", "Unknown")>>

\* format_context_from_results: the returns it may make; for no results the
\* bare string "", not a tuple
chatbot_format_context_from_results(rs, query_type) ==
    IF rs = << >> THEN {Bare("")}
    ELSE LET context ==
                 chatbot_context_header(query_type)
                     \o Join([i \in 1..Len(rs) |-> chatbot_context_line(rs[i], query_type)], "")
             source_info ==
                 Flatten([i \in 1..Len(rs) |-> chatbot_source_label(rs[i], query_type)])
         IN {Pair(Strip(context), l) : l \in ListOfSet(source_info)}

(* ----------------------------- sanitization ---------------------------- *)

\* the character at position i of s, "" beyond its ends
Ch(s, i) == IF i \in 1..Len(s) THEN SubSeq(s, i, i) ELSE ""

Max(a, b) == IF a > b THEN a ELSE b

\* \s, [ \t], \d and [-*+] of the regular expressions
Space == {" ", "\t", "\n"}
Blank == {" ", "\t"}
Digits == {"0", "1", "2", "3", "4", "5", "6", "7", "8", "9"}
ListMarks == {"-", "*", "+"}

RECURSIVE SkipWhile(_, _, _)
\* the first position from i on whose character is not in C (Len(s) + 1 when
\* there is none): where a greedy C* that starts at i ends
SkipWhile(s, i, C) == IF Ch(s, i) \in C THEN SkipWhile(s, i + 1, C) ELSE i

RECURSIVE SkipUntil(_, _, _)
\* the first position from i on whose character is c (Len(s) + 1 when there
\* is none): where a greedy [^c]* that starts at i ends
SkipUntil(s, i, c) ==
    IF i > Len(s) \/ Ch(s, i) = c THEN i ELSE SkipUntil(s, i + 1, c)

\* ^ under re.MULTILINE: the start of the text, or just after a newline
LineStart(s, i) == i = 1 \/ Ch(s, i - 1) = "\n"

\* the newlines of s at the positions i..(e - 1)
Newlines(s, i, e) == {j \in i..(e - 1) : Ch(s, j) = "\n"}

Greatest(S) == CHOOSE x \in S : \A y \in S : y <= x

\* the least element of a non-empty set of numbers
Least(S) == CHOOSE x \in S : \A y \in S : x <= y

\* mark ([^c]+) mark matches at position j of s, c the character the mark is
\* made of
Wrapped(s, j, mark, c) ==
    /\ Ch(s, j) = c
    /\ SubSeq(s, j, Min(j + Len(mark) - 1, Len(s))) = mark
    /\ LET from == j + Len(mark)
           to == SkipUntil(s, from, c)
       IN to > from /\ SubSeq(s, to, Min(to + Len(mark) - 1, Len(s))) = mark

RECURSIVE Unwrap(_, _, _, _)
\* re.sub(mark ([^c]+) mark, \1, s) from position i on: the text up to the
\* next match is kept, and the marks around a run of other characters are
\* dropped
Unwrap(s, i, mark, c) ==
    LET matches == {j \in i..Len(s) : Wrapped(s, j, mark, c)}
    IN IF matches = {} THEN SubSeq(s, i, Len(s))
       ELSE LET j == Least(matches)
                from == j + Len(mark)
                to == SkipUntil(s, from, c)
            IN SubSeq(s, i, j - 1) \o SubSeq(s, from, to - 1)
                   \o Unwrap(s, to + Len(mark), mark, c)

\* U+0060 GRAVE ACCENT, the mark of inline code; a TLA+ string cannot hold
\* it, and no text of the model holds this character otherwise
Backtick == "^"

\* the most '#' one header mark takes
MaxHeaderMarks == 6

RECURSIVE RemoveHeaders(_, _)
\* re.sub(#{1,6}\s*, '', s) from position i on
RemoveHeaders(s, i) ==
    LET matches == {j \in i..Len(s) : Ch(s, j) = "#"}
    IN IF matches = {} THEN SubSeq(s, i, Len(s))
       ELSE LET j == Least(matches)
                marks == Min(SkipWhile(s, j, {"#"}), j + MaxHeaderMarks)
            IN SubSeq(s, i, j - 1) \o RemoveHeaders(s, SkipWhile(s, marks, Space))

RECURSIVE BulletMarks(_, _)
\* re.sub(^[\s]*[-*+]\s*, bullet and blank, s, MULTILINE) from position i on
BulletMarks(s, i) ==
    LET matches == {j \in i..Len(s) :
                       LineStart(s, j) /\ Ch(s, SkipWhile(s, j, Space)) \in ListMarks}
    IN IF matches = {} THEN SubSeq(s, i, Len(s))
       ELSE LET j == Least(matches)
                mark == SkipWhile(s, j, Space)
            IN SubSeq(s, i, j - 1) \o Bullet \o " "
                   \o BulletMarks(s, SkipWhile(s, mark + 1, Space))

\* ^\s*\d+\. matches at position j of s
Numbered(s, j) ==
    /\ LineStart(s, j)
    /\ LET number == SkipWhile(s, j, Space)
           dot == SkipWhile(s, number, Digits)
       IN dot > number /\ Ch(s, dot) = "."

RECURSIVE NumberMarks(_, _)
\* re.sub(^\s*\d+\.\s*, bullet and blank, s, MULTILINE) from position i on
NumberMarks(s, i) ==
    LET matches == {j \in i..Len(s) : Numbered(s, j)}
    IN IF matches = {} THEN SubSeq(s, i, Len(s))
       ELSE LET j == Least(matches)
                dot == SkipWhile(s, SkipWhile(s, j, Space), Digits)
            IN SubSeq(s, i, j - 1) \o Bullet \o " "
                   \o NumberMarks(s, SkipWhile(s, dot + 1, Space))

\* the newlines a run of white space must hold to be cut to two
MinBlankRun == 3

\* \n\s*\n\s*\n+ matches at position j of s
BlankLines(s, j) ==
    /\ Ch(s, j) = "\n"
    /\ Cardinality(Newlines(s, j, SkipWhile(s, j, Space))) >= MinBlankRun

RECURSIVE SqueezeBlankLines(_, _)
\* re.sub(\n\s*\n\s*\n+, two newlines, s) from position i on: a run of white
\* space that starts with a newline and holds three or more of them is
\* replaced, up to its last newline
SqueezeBlankLines(s, i) ==
    LET matches == {j \in i..Len(s) : BlankLines(s, j)}
    IN IF matches = {} THEN SubSeq(s, i, Len(s))
       ELSE LET j == Least(matches)
                nl == Newlines(s, j, SkipWhile(s, j, Space))
            IN SubSeq(s, i, j - 1) \o "\n\n" \o SqueezeBlankLines(s, Greatest(nl) + 1)

RECURSIVE SqueezeBlanks(_, _)
\* re.sub([ \t]+, ' ', s) from position i on
SqueezeBlanks(s, i) ==
    LET matches == {j \in i..Len(s) : Ch(s, j) \in Blank}
    IN IF matches = {} THEN SubSeq(s, i, Len(s))
       ELSE LET j == Least(matches)
            IN SubSeq(s, i, j - 1) \o " " \o SqueezeBlanks(s, SkipWhile(s, j, Blank))

\* ^\s+|\s+$ under re.MULTILINE matches at position j of s: white space from
\* a line start on, or white space up to the end of the text or of a line
Trimmed(s, j) ==
    /\ Ch(s, j) \in Space
    /\ LET end == SkipWhile(s, j, Space)
       IN LineStart(s, j) \/ end > Len(s) \/ Newlines(s, j + 1, end) # {}

RECURSIVE TrimLines(_, _)
\* re.sub(^\s+|\s+$, '', s, MULTILINE) from position i on: white space is
\* dropped from a line start to the next other character, and from anywhere
\* to the end of the text or to the last newline of its run
TrimLines(s, i) ==
    LET matches == {j \in i..Len(s) : Trimmed(s, j)}
    IN IF matches = {} THEN SubSeq(s, i, Len(s))
       ELSE LET j == Least(matches)
                end == SkipWhile(s, j, Space)
            IN SubSeq(s, i, j - 1)
                   \o TrimLines(s, IF LineStart(s, j) \/ end > Len(s) THEN end
                                   ELSE Greatest(Newlines(s, j + 1, end)))

\* clean_response_text removing the marks of italic before those of bold
clean_response_text_italic_first(s) ==
    IF s = "" THEN s
    ELSE LET italic == Unwrap(s, 1, "*", "*")
             bold == Unwrap(italic, 1, "**", "*")
             headers == RemoveHeaders(bold, 1)
             code == Unwrap(headers, 1, Backtick, Backtick)
             bullets == BulletMarks(code, 1)
             numbers == NumberMarks(bullets, 1)
             paragraphs == SqueezeBlankLines(numbers, 1)
             blanks == SqueezeBlanks(paragraphs, 1)
             trimmed == TrimLines(blanks, 1)
         IN Strip(trimmed)

\* clean_response_text of chatbot_api.py, on a string
clean_response_text(s) ==
    IF s = "" THEN s
    ELSE LET bold == Unwrap(s, 1, "**", "*")
             italic == Unwrap(bold, 1, "*", "*")
             headers == RemoveHeaders(italic, 1)
             code == Unwrap(headers, 1, Backtick, Backtick)
             bullets == BulletMarks(code, 1)
             numbers == NumberMarks(bullets, 1)
             paragraphs == SqueezeBlankLines(numbers, 1)
             blanks == SqueezeBlanks(paragraphs, 1)
             trimmed == TrimLines(blanks, 1)
         IN Strip(trimmed)

\* clean_response_text of meeting_api.py: the same statements
meeting_clean_response_text(s) == clean_response_text(s)

(* --------------------------------- chat -------------------------------- *)

\* the values an answer may hold: a str, None, or an int
PyStr(s) == [py |-> "str", s |-> s]
PyNone == [py |-> "None"]
PyInt(n) == [py |-> "int", n |-> n]

\* What the completion endpoint does with one request:
\*   sent         requests.post returns a response (else it raises)
\*   status       the HTTP status of the response, with its reason phrase
\*   json         the body of the response parses as JSON
\*   has_choices  the body holds the key 'choices'
\*   choices      the message content of each choice
\*   has_usage    the body holds the key 'usage', with total_tokens
Response(status, reason, json, has_choices, choices, has_usage, total_tokens) ==
    [sent |-> TRUE, status |-> status, reason |-> reason, json |-> json,
     has_choices |-> has_choices, choices |-> choices, has_usage |-> has_usage,
     total_tokens |-> total_tokens]

\* requests.post raising: no response at all
Refused ==
    [sent |-> FALSE, status |-> 0, reason |-> "", json |-> FALSE, has_choices |-> FALSE,
     choices |-> << >>, has_usage |-> FALSE, total_tokens |-> 0]

\* self.openai_url
openai_url == "https://api.openai.com/v1/chat/completions"

\* str(e) of the exception requests.post raises when the endpoint is not reached
connection_error == "Connection refused"

\* str(e) of the HTTPError response.raise_for_status() raises
http_error(status, reason) ==
    ToString(status) \o (IF status < 500 THEN " Client Error: " ELSE " Server Error: ")
        \o reason \o " for url: " \o openai_url

\* str(e) of the exception response.json() raises on a body that is no JSON
json_error == "Expecting value: line 1 column 1 (char 0)"

\* str(e) of the TypeError re.sub raises on an int; the text depends on the
\* version of the interpreter
type_errors ==
    {"expected string or bytes-like object",
     "expected string or bytes-like object, got 'int'"}

\* the outcome of the try block from requests.post on: the exception that
\* leaves it, or the answer and the tokens read from the body
Failed(e) == [raised |-> TRUE, error |-> e]
Answered(answer, tokens) == [raised |-> FALSE, answer |-> answer, tokens |-> tokens]

\* the lowest and the first status raise_for_status lets pass no more
MinErrorStatus == 400
MaxErrorStatus == 600

\* requests.post(...); response.raise_for_status(); result = response.json();
\* answer = result['choices'][0]['message']['content'];
\* result.get('usage', {}).get('total_tokens', 0)
complete(c) ==
    IF ~c.sent THEN Failed(connection_error)
    ELSE IF c.status >= MinErrorStatus /\ c.status < MaxErrorStatus
         THEN Failed(http_error(c.status, c.reason))
    ELSE IF ~c.json THEN Failed(json_error)
    ELSE IF ~c.has_choices THEN Failed("'choices'")
    ELSE IF c.choices = << >> THEN Failed("list index out of range")
    ELSE Answered(c.choices[1], IF c.has_usage THEN c.total_tokens ELSE 0)

RECURSIVE FromKeys(_)
\* list(dict.fromkeys(l)): the first occurrence of each element, in order
FromKeys(l) ==
    IF l = << >> THEN << >>
    ELSE LET front == FromKeys(SubSeq(l, 1, Len(l) - 1))
         IN IF l[Len(l)] \in Range(front) THEN front ELSE Append(front, l[Len(l)])

\* chat: the label sources_used gets for one result
sources_used_label(item) ==
    IF item.type = "task" THEN <<"Tasks Database">>
    ELSE IF item.type = "user" THEN <<"Team Directory">>
    ELSE IF item.type = "post" THEN <<"Forum Posts by " \o Get(item, "author", "Unknown")>>
    ELSE IF item.type = "comment" THEN <<"Comments by " \o Get(item, "author", "Unknown")>>
    ELSE << >>

\* chat: sources_used, the same statements in both revisions
sources_used(rs) == FromKeys(Flatten([i \in 1..Len(rs) |-> sources_used_label(rs[i])]))

\* chatbot_api.py, chat: the system message before the data
api_preamble ==
    "You are MindVerse AI Assistant, a helpful AI for workspace questions.\n"
    \o "\n"
    \o "GUIDELINES:\n"
    \o "- Use workspace data directly when provided\n"
    \o "- Be specific with names, roles, and details\n"
    \o "- Start responses with \"Based on your workspace data...\" when relevant\n"
    \o "- Use natural, conversational language\n"

\* chatbot.py, chat: the system message before the data
chatbot_preamble ==
    "You are MindVerse AI Assistant, a knowledgeable and friendly AI that h"
    \o "elps users with their workspace questions. Be conversational, professi"
    \o "onal, and natural in your responses.\n"
    \o "\n"
    \o "RESPONSE GUIDELINES:\n"
    \o "- If you find relevant data in the workspace, start with clear source "
    \o "attribution\n"
    \o "- If no workspace data is found, directly provide helpful general info"
    \o "rmation without apologizing\n"
    \o "- Never start with \"I'm sorry, but I couldn't find...\" - just be helpf"
    \o "ul\n"
    \o "- Use natural phrases like \"Based on your forum posts...\", \"Looking at"
    \o " your task database...\" when you have data\n"
    \o "- Be specific about sources when possible (e.g., \"According to Fitra's"
    \o " forum post...\")\n"
    \o "- After providing information, feel free to add helpful context\n"
    \o "- Keep responses professional but friendly and conversational\n"
    \o "- Use proper formatting with line breaks between different sections\n"
    \o "\n"
    \o "WHEN YOU HAVE WORKSPACE DATA:\n"
    \o "- \"Based on your task database, I can see that...\"\n"
    \o "- \"Looking at the forum posts, I found that Fitra mentioned...\"  \n"
    \o "- \"According to your team directory...\"\n"
    \o "- \"From your project discussions...\"\n"
    \o "\n"
    \o "WHEN YOU DON'T HAVE WORKSPACE DATA:\n"
    \o "- Just provide helpful general information directly\n"
    \o "- You can mention it's general knowledge if relevant\n"
    \o "- Be naturally helpful without mentioning database limitations\n"
    \o "\n"
    \o "RESPONSE STRUCTURE:\n"
    \o "1. Lead with the most relevant information (workspace or general)\n"
    \o "2. Present information clearly and naturally\n"
    \o "3. Add helpful context or suggestions if relevant\n"
    \o "4. Keep it conversational and engaging\n"
    \o "\n"
    \o "Be helpful and engaging while maintaining professionalism."

\* api_system_message closing with the notice whether there is data or not
api_system_message_notice_always(f) ==
    api_preamble
        \o (IF f.context # ""
            THEN "\n\nWORKSPACE DATA:\n" \o f.context \o "\n\nSources: "
                     \o Join(f.sources, ", ")
            ELSE "")
        \o "\n\nNo workspace data found. Provide general guidance."

\* chatbot_api.py, chat: the system message
api_system_message(f) ==
    api_preamble
        \o (IF f.context # ""
            THEN "\n\nWORKSPACE DATA:\n" \o f.context \o "\n\nSources: "
                     \o Join(f.sources, ", ")
                     \o "\n\nUse this data to answer the user's question."
            ELSE "\n\nNo workspace data found. Provide general guidance.")

\* chatbot.py, chat: detailed_sources, [] when format_context_from_results
\* returned a bare string
chatbot_detailed_sources(f) == IF f.pair THEN f.sources ELSE << >>

\* chatbot.py, chat: the system message
chatbot_system_message(f) ==
    chatbot_preamble
        \o (IF f.context # ""
            THEN "\n\nDATA FROM YOUR WORKSPACE:\n" \o f.context \o "\n\nDetailed Sources: "
                     \o (IF chatbot_detailed_sources(f) # << >>
                         THEN Join(chatbot_detailed_sources(f), ", ")
                         ELSE "Internal Database")
            ELSE "\n\nNo specific workspace data found for this query. Provide helpful "
                     \o "general information directly without mentioning database "
                     \o "limitations.")

\* chat_metadata reporting has_context True whatever the context is
chat_metadata_always_has_context(it, rs, f, r) ==
    [answer |-> r.answer, sources |-> sources_used(rs), has_context |-> TRUE,
     tokens |-> r.tokens, intent_detected |-> it.type, results_found |-> Len(rs),
     filters_applied |-> it.filters]

\* chat, include_metadata=True: the dict returned after the try block
chat_metadata(it, rs, f, r) ==
    [answer |-> r.answer, sources |-> sources_used(rs), has_context |-> f.context # "",
     tokens |-> r.tokens, intent_detected |-> it.type, results_found |-> Len(rs),
     filters_applied |-> it.filters]

\* chat, include_metadata=True: the dict returned by the except clause
chat_error(error_msg, e) ==
    [answer |-> PyStr(error_msg), sources |-> << >>, has_context |-> FALSE, tokens |-> 0,
     error |-> e]

\* api_chat_error_msg leaving str(e) out unless verbose
api_chat_error_msg_verbose_only(e, vb) ==
    "Technical issue occurred" \o (IF vb THEN ": " \o e ELSE "") \o ". Please try again."

\* chatbot_api.py, chat: error_msg, with str(e) whatever self.verbose is
api_chat_error_msg(e, vb) == "Technical issue occurred: " \o e \o ". Please try again."

\* chatbot.py, chat: error_msg, with str(e) if self.verbose
chatbot_chat_error_msg(e, vb) ==
    "I'm experiencing technical difficulties. Please try again."
        \o (IF vb THEN " Error: " \o e ELSE "")

\* chatbot_api.py, chat(user_query, 10, include_metadata=True) from the
\* completion c on
api_chat(it, rs, f, c, vb) ==
    LET r == complete(c)
    IN IF r.raised THEN chat_error(api_chat_error_msg(r.error, vb), r.error)
       ELSE chat_metadata(it, rs, f, r)

\* chatbot.py, chat(user_query, 10, include_metadata=True) from the
\* completion c on
chatbot_chat(it, rs, f, c, vb) ==
    LET r == complete(c)
    IN IF r.raised THEN chat_error(chatbot_chat_error_msg(r.error, vb), r.error)
       ELSE chat_metadata(it, rs, f, r)

\* clean_response_text on an answer: "if not text: return text" hands None,
\* "" and 0 back, re.sub raises a TypeError on any other int
clean_answer(answer) ==
    IF answer.py = "None" THEN Returned(answer)
    ELSE IF answer.py = "int" THEN (IF answer.n = 0 THEN Returned(answer) ELSE Raised)
    ELSE Returned(PyStr(clean_response_text(answer.s)))

\* handle_chat_request handing the answer on as chat returned it
handle_chat_request_answer_as_returned(result) ==
    {[success |-> TRUE, answer |-> result.answer, sources |-> result.sources,
      has_context |-> result.has_context, tokens |-> result.tokens,
      intent |-> Get(result, "intent_detected", "unknown"),
      results_count |-> Get(result, "results_found", 0),
      filters_applied |-> Get(result, "filters_applied", EmptyMapping)]}

\* handle_chat_request(message, chatbot) with a chatbot, given the dict chat
\* returned: the envelopes it may return (chat with include_metadata=True
\* returns a dict, never a string)
handle_chat_request(result) ==
    LET cleaned_answer == clean_answer(result.answer)
    IN IF cleaned_answer.raised
       THEN {[success |-> TRUE,
              answer |-> PyStr("Technical issue occurred: " \o e \o ". Please try again."),
              sources |-> << >>, has_context |-> FALSE, tokens |-> 0, error |-> e] :
                 e \in type_errors}
       ELSE {[success |-> TRUE, answer |-> cleaned_answer.out, sources |-> result.sources,
              has_context |-> result.has_context, tokens |-> result.tokens,
              intent |-> Get(result, "intent_detected", "unknown"),
              results_count |-> Get(result, "results_found", 0),
              filters_applied |-> Get(result, "filters_applied", EmptyMapping)]}

(* ------------------------------ the pipeline --------------------------- *)

Revisions == {"chatbot_api", "chatbot"}

\* the words queries of the intent specification are made of
Vocabulary ==
    {"task", "Review", "DONE", "selesai", "belum", "progress", "user", "team", "forum",
     "comment", "hello"}

RECURSIVE WordSeqs(_)
\* the sequences of at most n distinct words
WordSeqs(n) ==
    IF n = 0 THEN {<< >>}
    ELSE LET shorter == WordSeqs(n - 1)
         IN shorter \cup
            {ws \in {Append(x, w) : x \in shorter, w \in Vocabulary} :
                Len(ws) = n /\ \A i \in 1..(n - 1) : ws[i] # ws[n]}

\* the queries of up to MaxWords words, joined by blanks
IntentQueries == {Join(ws, " ") : ws \in WordSeqs(MaxWords)}

\* the queries retrieval is run with
SearchQueries ==
    {"", "user", "task", "task done", "Tugas selesai", "forum", "comment", "auth", "login"}

\* the sets of collections that fault during one request
FaultSets == SUBSET Collections

FullStore ==
    [tasks |-> Take(TaskDocs, MaxDocs), users |-> Take(UserDocs, MaxDocs),
     posts |-> Take(PostDocs, MaxDocs), comments |-> Take(CommentDocs, MaxDocs)]

\* max_results_each as handle_chat_request passes it
MAX_RESULTS_EACH == 10

\* the intent types analyze_query_intent returns
IntentTypes == {"tasks", "users", "posts", "comments", "general"}

NoIntent == [type |-> "none", filters |-> EmptyMapping]

\* the value of a variable the request has not come to yet
Unset == [unset |-> TRUE]

\* before format_context: nothing formatted, asked or returned
NothingFormatted ==
    /\ formatted = Unset
    /\ system_message = ""
    /\ completion = Unset
    /\ reply = Unset
    /\ envelope = Unset

\* no call of clean_response_text of its own
NothingCleaned == text = "" /\ cleaned = ""

\* no chat call was made before on the instance
NoSession == earlier = << >>

\* main of chatbot_api.py is not run
NoMain ==
    /\ argv = << >>
    /\ environ = [OPENAI_API_KEY |-> TRUE, MONGO_URL |-> TRUE, ping |-> TRUE]
    /\ chatbot = "unbound"
    /\ mongo_client = "absent"
    /\ issued = << >>
    /\ main_result = Unset
    /\ printed = << >>
    /\ main_pc = "idle"

\* handle_analysis_request is not called
NoMeeting ==
    /\ task_data = Unset
    /\ analyzer = "None"
    /\ analysis_result = Unset
    /\ meeting_pc = "idle"

\* a single chat call of a fresh process
Idle == NoSession /\ NoMain /\ NoMeeting

\* the results format_context is given, apart from those of retrieval
FormatItems ==
    { [type |-> "task", name |-> "Fix login", progressStatus |-> "In Progress",
       assignee |-> "Unassigned", description |-> ""],
      [type |-> "task", name |-> "Fix login", progressStatus |-> "In Progress",
       assignee |-> "amelya, Super User", description |-> "auth"],
      [type |-> "task", name |-> "Smoke test", progressStatus |-> "ToDo",
       assignee |-> "Unassigned", description |-> "just test"],
      [type |-> "task", name |-> "Docs", progressStatus |-> "Review",
       assignee |-> "Unassigned",
       description |-> "Team needs to tidy up documentation of the project code"],
      [type |-> "task", name |-> "Report", progressStatus |-> "Done",
       assignee |-> "Unassigned",
       description |-> "Prepare the quarterly report for the whole team now"],
      [type |-> "task", name |-> "Review API", progressStatus |-> "Done",
       assignee |-> "Unassigned",
       description |-> " Write the endpoint documentation for the public API  "],
      [type |-> "task", name |-> "Login", progressStatus |-> "ToDo",
       assignee |-> "Carol", description |-> "user login"],
      [type |-> "user", name |-> "amelya", email |-> "amelya@mindverse.id", role |-> "Lead"],
      [type |-> "user", name |-> "Carol", email |-> "", role |-> "No Role"],
      [type |-> "post", title |-> "Wifi tutorial", content |-> "Tugas selesai", author |-> "amelya"],
      [type |-> "post", title |-> "Lunch", content |-> " ", author |-> "amelya"],
      [type |-> "comment", content |-> "forum user comment about the broken login page",
       author |-> "Idon"] }

\* results per list format_context is given
MaxItems == 2

\* the result lists format_context is given
FormatResults == UNION {[1..n -> FormatItems] : n \in 0..MaxItems}

\* characters per text clean_response_text is given
MaxLen == 5

\* the characters these texts are made of: the marks the expressions of
\* clean_response_text look for, a letter, a digit and white space
Alphabet == {"*", Backtick, "#", "-", "1", ".", "a", " ", "\n"}

RECURSIVE Strings(_)
\* the texts of at most n characters
Strings(n) ==
    IF n = 0 THEN {""}
    ELSE LET shorter == Strings(n - 1)
         IN shorter \cup {x \o c : x \in {y \in shorter : Len(y) = n - 1}, c \in Alphabet}

\* longer texts clean_response_text is given as well
SampleTexts == {"****a****", "**bold** and *italic*"}

\* the texts clean_response_text is given
Texts == Strings(MaxLen) \cup SampleTexts

TypeOK ==
    /\ rev \in Revisions
    /\ pc \in {"start", "classified", "retrieved", "formatted", "asked", "returned", "done",
             "raw", "cleaned"}
    /\ max_results \in Nat
    /\ fault \subseteq Collections

Init ==
    /\ rev \in Revisions
    /\ query \in SearchQueries
    /\ max_results \in 0..MaxResults
    /\ store \in Stores
    /\ fault \in FaultSets
    /\ pc = "start"
    /\ intent = NoIntent
    /\ calls = << >>
    /\ results = << >>
    /\ verbose = FALSE
    /\ NothingFormatted /\ NothingCleaned
    /\ Idle

InitIntent ==
    /\ rev \in Revisions
    /\ query \in IntentQueries
    /\ max_results = MAX_RESULTS_EACH
    /\ store = FullStore
    /\ fault = {}
    /\ pc = "start"
    /\ intent = NoIntent
    /\ calls = << >>
    /\ results = << >>
    /\ verbose = FALSE
    /\ NothingFormatted /\ NothingCleaned
    /\ Idle

\* ApiAnalyze with an instance that keeps the filters of its last call
ApiAnalyzeKeepingFilters ==
    /\ rev = "chatbot_api"
    /\ pc = "start"
    /\ intent' =
          LET it == api_analyze_query_intent(query)
          IN IF earlier # << >> /\ it.filters = EmptyMapping
             THEN [it EXCEPT !.filters = earlier[Len(earlier)].intent.filters]
             ELSE it
    /\ pc' = "classified"
    /\ UNCHANGED <<rev, query, max_results, store, fault, calls, results, verbose>>
    /\ UNCHANGED <<chatVars, cleanVars, otherVars>>

\* chatbot_api.py, chat: intent = self.analyze_query_intent(user_query)
ApiAnalyze ==
    /\ rev = "chatbot_api"
    /\ pc = "start"
    /\ intent' = api_analyze_query_intent(query)
    /\ pc' = "classified"
    /\ UNCHANGED <<rev, query, max_results, store, fault, calls, results, verbose>>
    /\ UNCHANGED <<chatVars, cleanVars, otherVars>>

\* chatbot.py, chat: intent = self.analyze_query_intent(user_query)
ChatbotAnalyze ==
    /\ rev = "chatbot"
    /\ pc = "start"
    /\ intent' = chatbot_analyze_query_intent(query)
    /\ pc' = "classified"
    /\ UNCHANGED <<rev, query, max_results, store, fault, calls, results, verbose>>
    /\ UNCHANGED <<chatVars, cleanVars, otherVars>>

\* chatbot_api.py, chat: search_results = self.search_database(...)
ApiSearch ==
    /\ rev = "chatbot_api"
    /\ pc = "classified"
    /\ calls' = api_search_calls(query, intent, max_results, store, fault)
    /\ results' = api_search_return(calls', intent, max_results)
    /\ pc' = "retrieved"
    /\ UNCHANGED <<rev, query, max_results, store, fault, intent, verbose>>
    /\ UNCHANGED <<chatVars, cleanVars, otherVars>>

\* chatbot.py, chat: search_results = self.search_with_intent(...)
ChatbotSearch ==
    /\ rev = "chatbot"
    /\ pc = "classified"
    /\ calls' = chatbot_search_calls(query, intent, max_results, store, fault)
    /\ results' = chatbot_search_return(calls', intent, max_results)
    /\ pc' = "retrieved"
    /\ UNCHANGED <<rev, query, max_results, store, fault, intent, verbose>>
    /\ UNCHANGED <<chatVars, cleanVars, otherVars>>

\* chatbot_api.py, chat: context, sources = self.format_context(...)
ApiFormat ==
    /\ rev = "chatbot_api"
    /\ pc = "retrieved"
    /\ formatted' \in api_format_context(results, intent.type)
    /\ pc' = "formatted"
    /\ UNCHANGED <<retrievalVars, system_message, completion, reply, envelope, cleanVars, otherVars>>

\* chatbot.py, chat: context_result = self.format_context_from_results(...)
ChatbotFormat ==
    /\ rev = "chatbot"
    /\ pc = "retrieved"
    /\ formatted' \in chatbot_format_context_from_results(results, intent.type)
    /\ pc' = "formatted"
    /\ UNCHANGED <<retrievalVars, system_message, completion, reply, envelope, cleanVars, otherVars>>

Next == ApiAnalyze \/ ChatbotAnalyze \/ ApiSearch \/ ChatbotSearch

Spec == Init /\ [][Next]_vars

SpecIntent == InitIntent /\ [][Next]_vars

\* format_context and format_context_from_results on result lists of their own
InitFormat ==
    /\ rev \in Revisions
    /\ query = ""
    /\ max_results = MAX_RESULTS_EACH
    /\ store = FullStore
    /\ fault = {}
    /\ pc = "retrieved"
    /\ intent \in {[type |-> t, filters |-> EmptyMapping] : t \in IntentTypes}
    /\ calls = << >>
    /\ results \in FormatResults
    /\ verbose = FALSE
    /\ NothingFormatted /\ NothingCleaned
    /\ Idle

NextFormat == ApiFormat \/ ChatbotFormat

\* clean_response_text(text), called on a text of its own
CleanResponseText ==
    /\ pc = "raw"
    /\ cleaned' = clean_response_text(text)
    /\ pc' = "cleaned"
    /\ UNCHANGED <<retrievalVars, chatVars, text, otherVars>>

\* clean_response_text on texts of its own
InitClean ==
    /\ rev = "chatbot_api"
    /\ query = ""
    /\ max_results = MAX_RESULTS_EACH
    /\ store = FullStore
    /\ fault = {}
    /\ pc = "raw"
    /\ intent = NoIntent
    /\ calls = << >>
    /\ results = << >>
    /\ verbose = FALSE
    /\ NothingFormatted
    /\ text \in Texts
    /\ cleaned = ""
    /\ Idle

NextClean == CleanResponseText

SpecClean == InitClean /\ [][NextClean]_vars

SpecFormat == InitFormat /\ [][NextFormat]_vars

\* what the completion endpoint may do with a request: refuse the connection,
\* answer with an error status, with a body that is no JSON, with a body
\* without choices, with a choice whose content is null or a number, or
\* with a text
Completions ==
    { Refused,
      Response(401, "Unauthorized", TRUE, FALSE, << >>, FALSE, 0),
      Response(500, "Internal Server Error", FALSE, FALSE, << >>, FALSE, 0),
      Response(200, "OK", FALSE, FALSE, << >>, FALSE, 0),
      Response(200, "OK", TRUE, FALSE, << >>, FALSE, 0),
      Response(200, "OK", TRUE, TRUE, << >>, TRUE, 9),
      Response(200, "OK", TRUE, TRUE, <<PyNone>>, TRUE, 9),
      Response(200, "OK", TRUE, TRUE, <<PyInt(7)>>, TRUE, 9),
      Response(200, "OK", TRUE, TRUE, <<PyStr("")>>, FALSE, 0),
      Response(200, "OK", TRUE, TRUE,
               <<PyStr("**Done**: 2 tasks\n\n\n\n1. Fix login\n- #Docs")>>, TRUE, 42) }

\* the messages chat is called with
ChatQueries == {"", "user", "task done", "forum", "login"}

\* the stores chat is run on: tasks and users, posts and comments, each pair
\* empty or holding MaxDocs documents per collection
ChatStores ==
    {[tasks |-> Take(TaskDocs, n), users |-> Take(UserDocs, n),
      posts |-> Take(PostDocs, m), comments |-> Take(CommentDocs, m)] :
        n \in {0, MaxDocs}, m \in {0, MaxDocs}}

\* chat on a message of its own, with the chatbot built verbose or not
InitChat ==
    /\ rev \in Revisions
    /\ query \in ChatQueries
    /\ max_results = MAX_RESULTS_EACH
    /\ store \in ChatStores
    /\ fault \in FaultSets
    /\ pc = "start"
    /\ intent = NoIntent
    /\ calls = << >>
    /\ results = << >>
    /\ verbose \in BOOLEAN
    /\ NothingFormatted /\ NothingCleaned
    /\ Idle

\* chatbot_api.py, chat: the system message is built and posted, and the
\* endpoint does one of the things it may do
ApiAsk ==
    /\ rev = "chatbot_api"
    /\ pc = "formatted"
    /\ system_message' = api_system_message(formatted)
    /\ completion' \in Completions
    /\ pc' = "asked"
    /\ UNCHANGED <<retrievalVars, formatted, reply, envelope, cleanVars, otherVars>>

\* chatbot.py, chat: the system message is built and posted
ChatbotAsk ==
    /\ rev = "chatbot"
    /\ pc = "formatted"
    /\ system_message' = chatbot_system_message(formatted)
    /\ completion' \in Completions
    /\ pc' = "asked"
    /\ UNCHANGED <<retrievalVars, formatted, reply, envelope, cleanVars, otherVars>>

\* chatbot_api.py, chat: the response is read and the dict returned
ApiReturn ==
    /\ rev = "chatbot_api"
    /\ pc = "asked"
    /\ reply' = api_chat(intent, results, formatted, completion, verbose)
    /\ pc' = "returned"
    /\ UNCHANGED <<retrievalVars, formatted, system_message, completion, envelope, cleanVars, otherVars>>

\* chatbot.py, chat: the response is read and the dict returned
ChatbotReturn ==
    /\ rev = "chatbot"
    /\ pc = "asked"
    /\ reply' = chatbot_chat(intent, results, formatted, completion, verbose)
    /\ pc' = "returned"
    /\ UNCHANGED <<retrievalVars, formatted, system_message, completion, envelope, cleanVars, otherVars>>

\* chatbot_api.py, handle_chat_request: the envelope made of what chat returned
HandleChatRequest ==
    /\ rev = "chatbot_api"
    /\ pc = "returned"
    /\ envelope' \in handle_chat_request(reply)
    /\ pc' = "done"
    /\ UNCHANGED <<retrievalVars, formatted, system_message, completion, reply, cleanVars, otherVars>>

NextChat ==
    \/ ApiAnalyze \/ ChatbotAnalyze
    \/ ApiSearch \/ ChatbotSearch
    \/ ApiFormat \/ ChatbotFormat
    \/ ApiAsk \/ ChatbotAsk
    \/ ApiReturn \/ ChatbotReturn
    \/ HandleChatRequest

SpecChat == InitChat /\ [][NextChat]_vars

(* ------------------- chat calls on one instance ------------------------ *)

\* chat calls made on one instance, the last one included
MaxCalls == 2

\* the messages typed to interactive_chat that it hands to chat
SessionQueries == {"user", "task done", "forum"}

SessionStores == {store_ \in ChatStores : store_.tasks # << >>}

SessionFaults == {{}, {"posts"}}

\* what is written down of a chat call that returned
Earlier ==
    [query |-> query, completion |-> completion, intent |-> intent,
     results |-> results, formatted |-> formatted, reply |-> reply]

\* chatbot.py, interactive_chat: chat returned and is called again on the
\* same instance with the next message; its locals are new, the instance
\* and the store are as they were
ChatAgain ==
    /\ pc = "returned"
    /\ Len(earlier) < MaxCalls - 1
    /\ earlier' = Append(earlier, Earlier)
    /\ query' \in SessionQueries
    /\ intent' = NoIntent
    /\ calls' = << >>
    /\ results' = << >>
    /\ formatted' = Unset
    /\ system_message' = ""
    /\ completion' = Unset
    /\ reply' = Unset
    /\ pc' = "start"
    /\ UNCHANGED <<rev, max_results, store, fault, verbose, envelope, cleanVars>>
    /\ UNCHANGED <<mainVars, meetingVars>>

\* the first chat call on an instance
InitSession ==
    /\ rev \in Revisions
    /\ query \in SessionQueries
    /\ max_results = MAX_RESULTS_EACH
    /\ store \in SessionStores
    /\ fault \in SessionFaults
    /\ pc = "start"
    /\ intent = NoIntent
    /\ calls = << >>
    /\ results = << >>
    /\ verbose \in BOOLEAN
    /\ NothingFormatted /\ NothingCleaned
    /\ Idle

NextSession ==
    \/ ApiAnalyze \/ ChatbotAnalyze
    \/ ApiSearch \/ ChatbotSearch
    \/ ApiFormat \/ ChatbotFormat
    \/ ApiAsk \/ ChatbotAsk
    \/ ApiReturn \/ ChatbotReturn
    \/ ChatAgain

SpecSession == InitSession /\ [][NextSession]_vars

(* ------------------------ chatbot_api.py: main -------------------------- *)

\* the command lines main is started with, without the script's name: none,
\* the two sentinels, and messages
Arguments ==
    {<< >>, <<"__GET_STATS__">>, <<"__HEALTH_CHECK__">>, <<"task done">>, <<"forum">>}

\* what initialize_chatbot finds: the two variables of the environment set
\* or not, and the ping of __init__ answered or not
Environments == [OPENAI_API_KEY : BOOLEAN, MONGO_URL : BOOLEAN, ping : BOOLEAN]

\* initialize_chatbot(): the chatbot it returns, None when a variable is
\* missing or __init__ raises, and the client __init__ has made by then
initialize_chatbot(env) ==
    IF ~env.OPENAI_API_KEY \/ ~env.MONGO_URL
    THEN [chatbot |-> "None", mongo_client |-> "absent"]
    ELSE IF ~env.ping THEN [chatbot |-> "None", mongo_client |-> "open"]
    ELSE [chatbot |-> "MindVerseAI", mongo_client |-> "open"]

\* the collections get_stats counts, in its order
stats_order == <<"comments", "posts", "tasks", "users">>

\* get_stats: the count_documents calls made, up to the first that raises
stats_counted(flt) ==
    LET bad == {i \in 1..Len(stats_order) : stats_order[i] \in flt}
    IN IF bad = {} THEN stats_order ELSE SubSeq(stats_order, 1, Least(bad))

\* get_stats(): the counts and their total, or the dict of the except clause
get_stats(st, flt) ==
    IF Range(stats_order) \cap flt # {} THEN [error |-> "count_documents failed"]
    ELSE [comments |-> Len(st.comments), posts |-> Len(st.posts),
          tasks |-> Len(st.tasks), users |-> Len(st.users),
          total |-> Len(st.comments) + Len(st.posts) + Len(st.tasks) + Len(st.users)]

\* handle_stats_request: the dict returned when there are no statistics
no_stats ==
    [success |-> FALSE, error |-> "Cannot retrieve database statistics",
     comments |-> 0, posts |-> 0, tasks |-> 0, users |-> 0, total |-> 0]

\* handle_stats_request(chatbot)
handle_stats_request(bot, st, flt) ==
    IF bot # "None" /\ "error" \notin DOMAIN get_stats(st, flt)
    THEN LET stats == get_stats(st, flt)
         IN [success |-> TRUE, comments |-> stats.comments, posts |-> stats.posts,
             tasks |-> stats.tasks, users |-> stats.users, total |-> stats.total]
    ELSE no_stats

\* handle_health_check(chatbot)
handle_health_check(bot) ==
    [success |-> TRUE, status |-> "healthy",
     message |-> "MindVerse AI Assistant is operational",
     database_connected |-> bot # "None"]

\* handle_chat_request(message, None)
handle_chat_request_no_chatbot ==
    [success |-> FALSE,
     answer |-> PyStr("Chatbot initialization failed. Please check configuration."),
     sources |-> << >>, has_context |-> FALSE, tokens |-> 0,
     error |-> "No chatbot available"]

\* main: what is printed when there is no argument
no_message ==
    [success |-> FALSE, error |-> "No message provided",
     answer |-> PyStr("Please provide a message.")]

\* main: what the except clause prints
system_error(e) ==
    [success |-> FALSE, error |-> e,
     answer |-> PyStr("A system error occurred. Please try again.")]

\* an exception raised in the try block of main
Exception(e) == [exception |-> e]

\* the queries qs, issued on the client as it is
On(qs) == [i \in 1..Len(qs) |-> [coll |-> qs[i], open |-> mongo_client = "open"]]

\* main: there is no argument; the object is printed and main returns
MainNoMessage ==
    /\ main_pc = "entry"
    /\ Len(argv) < 1
    /\ printed' = Append(printed, no_message)
    /\ main_pc' = "exit"
    /\ UNCHANGED <<argv, environ, chatbot, mongo_client, issued, main_result>>
    /\ UNCHANGED notMainVars

\* main: chatbot, error = initialize_chatbot()
MainInitialize ==
    /\ main_pc = "entry"
    /\ Len(argv) >= 1
    /\ chatbot' = initialize_chatbot(environ).chatbot
    /\ mongo_client' = initialize_chatbot(environ).mongo_client
    /\ main_pc' = "try"
    /\ UNCHANGED <<argv, environ, issued, main_result, printed>>
    /\ UNCHANGED notMainVars

\* main: result = handle_stats_request(chatbot)
MainStats ==
    /\ main_pc = "try"
    /\ argv[1] = "__GET_STATS__"
    /\ issued' = issued \o (IF chatbot # "None" THEN On(stats_counted(fault)) ELSE << >>)
    /\ main_result' = handle_stats_request(chatbot, store, fault)
    /\ main_pc' = "print"
    /\ UNCHANGED <<argv, environ, chatbot, mongo_client, printed>>
    /\ UNCHANGED notMainVars

\* main: result = handle_health_check(chatbot)
MainHealth ==
    /\ main_pc = "try"
    /\ argv[1] = "__HEALTH_CHECK__"
    /\ main_result' = handle_health_check(chatbot)
    /\ main_pc' = "print"
    /\ UNCHANGED <<argv, environ, chatbot, mongo_client, issued, printed>>
    /\ UNCHANGED notMainVars

\* main: result = handle_chat_request(message, chatbot), without a chatbot
MainChatNoChatbot ==
    /\ main_pc = "try"
    /\ argv[1] \notin {"__GET_STATS__", "__HEALTH_CHECK__"}
    /\ chatbot = "None"
    /\ main_result' = handle_chat_request_no_chatbot
    /\ main_pc' = "print"
    /\ UNCHANGED <<argv, environ, chatbot, mongo_client, issued, printed>>
    /\ UNCHANGED notMainVars

\* main: result = handle_chat_request(message, chatbot): chat classifies the
\* message, searches the store, formats, asks the endpoint, and the envelope
\* is made of what it returns
MainChat ==
    /\ main_pc = "try"
    /\ argv[1] \notin {"__GET_STATS__", "__HEALTH_CHECK__"}
    /\ chatbot # "None"
    /\ LET it == api_analyze_query_intent(argv[1])
           cs == api_search_calls(argv[1], it, MAX_RESULTS_EACH, store, fault)
           rs == api_search_return(cs, it, MAX_RESULTS_EACH)
       IN /\ issued' = issued \o On([i \in 1..Len(cs) |-> cs[i].coll])
          /\ \E f \in api_format_context(rs, it.type), c \in Completions :
                 main_result' \in handle_chat_request(api_chat(it, rs, f, c, FALSE))
    /\ main_pc' = "print"
    /\ UNCHANGED <<argv, environ, chatbot, mongo_client, printed>>
    /\ UNCHANGED notMainVars

\* main: an exception leaves the handler or json.dumps (the handlers catch
\* those raised inside their own try blocks)
MainRaise ==
    /\ main_pc = "try"
    /\ main_result' = Exception("MemoryError")
    /\ main_pc' = "print"
    /\ UNCHANGED <<argv, environ, chatbot, mongo_client, issued, printed>>
    /\ UNCHANGED notMainVars

\* main: print(json.dumps(result)), or the print of the except clause
MainPrint ==
    /\ main_pc = "print"
    /\ printed' = Append(printed, IF "exception" \in DOMAIN main_result
                                 THEN system_error(main_result.exception) ELSE main_result)
    /\ main_pc' = "finally"
    /\ UNCHANGED <<argv, environ, chatbot, mongo_client, issued, main_result>>
    /\ UNCHANGED notMainVars

\* MainFinally without the call of close
MainFinallyWithoutClose ==
    /\ main_pc = "finally"
    /\ main_pc' = "exit"
    /\ UNCHANGED <<argv, environ, chatbot, mongo_client, issued, main_result, printed>>
    /\ UNCHANGED notMainVars

\* main, the finally clause: if chatbot: chatbot.close(), which closes the
\* client the chatbot has
MainFinally ==
    /\ main_pc = "finally"
    /\ mongo_client' = IF chatbot # "None" THEN "closed" ELSE mongo_client
    /\ main_pc' = "exit"
    /\ UNCHANGED <<argv, environ, chatbot, issued, main_result, printed>>
    /\ UNCHANGED notMainVars

\* one run of main: a command line, an environment, a store
InitMain ==
    /\ rev = "chatbot_api"
    /\ query = ""
    /\ max_results = MAX_RESULTS_EACH
    /\ store \in ChatStores
    /\ fault \in FaultSets
    /\ pc = "start"
    /\ intent = NoIntent
    /\ calls = << >>
    /\ results = << >>
    /\ verbose = FALSE
    /\ NothingFormatted /\ NothingCleaned
    /\ NoSession /\ NoMeeting
    /\ argv \in Arguments
    /\ environ \in Environments
    /\ chatbot = "unbound"
    /\ mongo_client = "absent"
    /\ issued = << >>
    /\ main_result = Unset
    /\ printed = << >>
    /\ main_pc = "entry"

NextMain ==
    \/ MainNoMessage \/ MainInitialize
    \/ MainStats \/ MainHealth \/ MainChatNoChatbot \/ MainChat \/ MainRaise
    \/ MainPrint \/ MainFinally

SpecMain == InitMain /\ [][NextMain]_vars

(* --------------------- meeting_api.py: the analysis --------------------- *)

\* a list as a Python value
PyList(items) == [py |-> "list", items |-> items]

\* bool(v)
Truthy(v) ==
    IF v.py = "None" THEN FALSE
    ELSE IF v.py = "str" THEN v.s # ""
    ELSE IF v.py = "int" THEN v.n # 0
    ELSE v.items # << >>

\* v can be the key of a dict
Hashable(v) == v.py # "list"

\* str(e) of the TypeError a list raises as a key
unhashable_error == "unhashable type: 'list'"
\* str(e) of the TypeError len raises on an int
no_len_error == "object of type 'int' has no len()"
\* str(e) of the AttributeError of a list asked for lower
no_lower_error == "'list' object has no attribute 'lower'"

\* what a function does: it returns a value, or an exception leaves it
Return(value) == [raised |-> FALSE, value |-> value]
Raise(e) == [raised |-> TRUE, error |-> e]

\* get_enhanced_fallback_analysis: status_config.get(task_status,
\* status_config["In Progress"]), for a status that can be a key
status_config(status, name) ==
    IF status = PyStr("ToDo") THEN
        [title |-> "Kickoff Meeting - " \o name,
         duration |-> 45,
         agenda |->
            << "Project overview and objectives",
               "Requirements clarification and scope",
               "Role assignments and responsibilities",
               "Timeline and milestone planning",
               "Resource allocation discussion" >>,
         purpose |-> "Plan and initiate the execution of " \o name,
         discussion_points |->
            << "Define clear requirements for " \o name,
               "Establish project scope and boundaries",
               "Assign team roles and responsibilities",
               "Set up development and communication workflow",
               "Plan testing and quality assurance approach" >>]
    ELSE IF status = PyStr("Review") THEN
        [title |-> "Quality Review - " \o name,
         duration |-> 60,
         agenda |->
            << "Deliverable presentation and demo",
               "Quality assessment and testing results",
               "Code review and technical evaluation",
               "User acceptance criteria verification",
               "Deployment and go-live planning" >>,
         purpose |-> "Review and approve deliverables for " \o name,
         discussion_points |->
            << "Quality assessment of " \o name \o " deliverables",
               "User experience and interface evaluation",
               "Performance benchmarks and optimization",
               "Documentation completeness and accuracy",
               "Deployment strategy and rollback procedures" >>]
    ELSE
        [title |-> "Progress Review - " \o name,
         duration |-> 30,
         agenda |->
            << "Current progress status update",
               "Technical challenges and blockers",
               "Resource needs and availability",
               "Timeline review and adjustments",
               "Next sprint planning" >>,
         purpose |-> "Review progress and resolve issues for " \o name,
         discussion_points |->
            << "Technical implementation progress of " \o name,
               "Performance metrics and quality indicators",
               "Resource constraints and optimization",
               "Risk mitigation and contingency planning",
               "User feedback integration and iteration" >>]

\* the length a description must exceed for its key words to count
min_description_length == 10

\* get_enhanced_fallback_analysis: the points added for the description
description_points(d) ==
    IF Contains("ai", lower(d)) \/ Contains("artificial intelligence", lower(d))
    THEN << "AI model training and optimization strategies",
            "Data quality and algorithm performance metrics" >>
    ELSE IF Contains("ui", lower(d)) \/ Contains("interface", lower(d))
    THEN << "User interface design and usability testing",
            "Responsive design and accessibility compliance" >>
    ELSE IF Contains("api", lower(d))
    THEN << "API design patterns and integration testing",
            "Authentication and security implementation" >>
    ELSE << >>

\* get_enhanced_fallback_analysis: the dict it returns for a description whose
\* points are extra
enhanced_fallback(td, error_msg, extra) ==
    LET name == Get(td, "name", PyStr("Task")).s
        config == status_config(Get(td, "progressStatus", PyStr("In Progress")), name)
    IN [success |-> TRUE,
        analysis |->
            [suggested_title |-> config.title,
             suggested_duration |-> config.duration,
             urgency |-> IF Truthy(Get(td, "dueDate", PyNone)) THEN "High" ELSE "Medium",
             best_time_of_day |-> "10:00 AM - 11:00 AM",
             best_day_suggestion |-> "Tuesday or Wednesday",
             agenda |-> config.agenda,
             meeting_purpose |-> config.purpose,
             preparation_notes |->
                 "Review " \o name \o " requirements and prepare status updates",
             success_metrics |->
                 "Clear action items assigned with timeline and responsibilities",
             recommended_discussion_points |-> config.discussion_points \o extra],
        source |-> "enhanced_fallback",
        fallback_reason |-> error_msg,
        tokens_used |-> 0]

\* get_enhanced_fallback_analysis(task_data, error_msg): a status that cannot
\* be a key raises in status_config.get, a description that is true and has no
\* len raises in len, one that is longer than ten and has no lower raises there
get_enhanced_fallback_analysis(td, error_msg) ==
    LET status == Get(td, "progressStatus", PyStr("In Progress"))
        d == Get(td, "description", PyStr(""))
    IN IF ~Hashable(status) THEN Raise(unhashable_error)
       ELSE IF ~Truthy(d) THEN Return(enhanced_fallback(td, error_msg, << >>))
       ELSE IF d.py = "int" THEN Raise(no_len_error)
       ELSE IF d.py = "list"
            THEN IF Len(d.items) > min_description_length THEN Raise(no_lower_error)
                 ELSE Return(enhanced_fallback(td, error_msg, << >>))
       ELSE IF Len(d.s) > min_description_length
            THEN Return(enhanced_fallback(td, error_msg, description_points(d.s)))
       ELSE Return(enhanced_fallback(td, error_msg, << >>))

(* -------------------- meeting_analyzer.py: the analyzer ----------------- *)

\* create_fallback_analysis: status_config.get(task_data['progressStatus'],
\* status_config["In Progress"])
analyzer_status_config(status, name) ==
    IF status = PyStr("ToDo") THEN
        [title |-> "Kickoff Meeting - " \o name,
         duration |-> 45,
         agenda |->
            << "Project overview and objectives",
               "Role assignments and responsibilities",
               "Timeline and milestone planning",
               "Resource requirements discussion" >>,
         purpose |-> "Plan and initiate the task execution",
         discussion_points |->
            << "Define project scope and deliverables",
               "Assign roles and responsibilities",
               "Set up communication channels",
               "Establish timeline and milestones" >>]
    ELSE IF status = PyStr("Review") THEN
        [title |-> "Quality Review - " \o name,
         duration |-> 60,
         agenda |->
            << "Work deliverables presentation",
               "Quality assessment and feedback",
               "Revision requirements discussion",
               "Approval process and timeline" >>,
         purpose |-> "Review work quality and approve deliverables",
         discussion_points |->
            << "Deliverable quality assessment",
               "User feedback and requirements",
               "Performance and optimization",
               "Documentation and handover" >>]
    ELSE
        [title |-> "Progress Review - " \o name,
         duration |-> 30,
         agenda |->
            << "Current progress status update",
               "Challenges and blockers discussion",
               "Resource needs assessment",
               "Next steps planning" >>,
         purpose |-> "Review progress and resolve issues",
         discussion_points |->
            << "Technical challenges and solutions",
               "Resource availability and constraints",
               "Timeline adjustments if needed",
               "Quality checkpoints and testing" >>]

\* create_fallback_analysis(task_data), for task data with a name and a status
create_fallback_analysis(td) ==
    LET config == analyzer_status_config(td["progressStatus"], td["name"].s)
    IN IF ~Hashable(td["progressStatus"]) THEN Raise(unhashable_error)
       ELSE Return([suggested_title |-> config.title,
                    suggested_duration |-> config.duration,
                    agenda |-> config.agenda,
                    meeting_purpose |-> config.purpose,
                    recommended_discussion_points |-> config.discussion_points])

\* the texts json.loads takes for an object, of those the endpoint answers with
JsonObjects == {"{\"suggested_title\": \"Sync\", \"suggested_duration\": 20}"}

\* ai_response[ai_response.find('{'):ai_response.rfind('}') + 1]; find and
\* rfind give -1 when there is no brace, and a slice from -1 starts at the
\* last character
json_str(s) ==
    LET opens == {i \in 1..Len(s) : SubSeq(s, i, i) = "{"}
        closes == {i \in 1..Len(s) : SubSeq(s, i, i) = "}"}
        end == IF closes = {} THEN 0 ELSE CHOOSE i \in closes : \A j \in closes : j <= i
    IN IF opens = {}
       THEN IF s # "" /\ end = Len(s) THEN SubSeq(s, Len(s), Len(s)) ELSE ""
       ELSE IF end < Least(opens) THEN ""
       ELSE SubSeq(s, Least(opens), end)

\* analyze_task_for_meeting, from the content of the answer on: the analysis
\* read from it, or the one of create_fallback_analysis when the bare except
\* catches (no text, no JSON object in it)
analysis_of(td, content) ==
    IF content.py = "str" /\ json_str(content.s) \in JsonObjects
    THEN Return([json |-> json_str(content.s)])
    ELSE create_fallback_analysis(td)

\* analyze_task_for_meeting(task_data) when the endpoint does c: a missing name
\* or status raises a KeyError in the try block and again in the except
\* clause, which calls create_fallback_analysis; so does a status that cannot
\* be a key, when create_fallback_analysis is called
analyze_task_for_meeting(td, c) ==
    IF "name" \notin DOMAIN td THEN Raise("'name'")
    ELSE IF "progressStatus" \notin DOMAIN td THEN Raise("'progressStatus'")
    ELSE IF complete(c).raised
         THEN IF create_fallback_analysis(td).raised THEN create_fallback_analysis(td)
              ELSE Return([success |-> FALSE, error |-> complete(c).error,
                           analysis |-> create_fallback_analysis(td).value])
    ELSE IF analysis_of(td, complete(c).answer).raised
         THEN analysis_of(td, complete(c).answer)
    ELSE Return([success |-> TRUE,
                 analysis |-> analysis_of(td, complete(c).answer).value,
                 tokens_used |-> complete(c).tokens])

(* ---------------- meeting_api.py: handle_analysis_request --------------- *)

\* handle_analysis_request: the try block
analysis_request(td, an, c) ==
    IF an = "None" THEN get_enhanced_fallback_analysis(td, "OpenAI API not available")
    ELSE LET r == analyze_task_for_meeting(td, c)
         IN IF r.raised THEN r
            ELSE IF r.value.success
                 THEN Return([success |-> TRUE, analysis |-> r.value.analysis,
                              tokens_used |-> r.value.tokens_used, source |-> "openai"])
            ELSE get_enhanced_fallback_analysis(td, r.value.error)

\* handle_analysis_request(task_data, analyzer) when the endpoint does c: what
\* the try block returns, or what the fallback called by the except clause
\* does with the exception
handle_analysis_request(td, an, c) ==
    LET r == analysis_request(td, an, c)
    IN IF r.raised THEN get_enhanced_fallback_analysis(td, r.error) ELSE r

\* the task data handle_analysis_request is called with: mappings with or
\* without each key, with values of the types JSON has
TaskNames == {PyStr("Deploy")}
TaskStatuses ==
    {PyStr("ToDo"), PyStr("In Progress"), PyStr("Review"), PyStr("Done"), PyNone,
     PyList(<<"ToDo">>)}
TaskDescriptions ==
    {PyStr(""), PyStr("Fix it"), PyStr("Build the API gateway"),
     PyStr("Train an AI model"), PyStr("Write release notes"), PyNone, PyInt(0),
     PyInt(20250801), PyList(<<"a">>), PyList([i \in 1..(min_description_length + 1) |-> "a"])}
TaskDueDates == {PyStr("2025-08-01")}

TaskField(key, values) == {<< >>} \cup {<< <<key, v>> >> : v \in values}

TaskData ==
    {LET pairs == n \o s \o d \o u
     IN [k \in {pairs[i][1] : i \in 1..Len(pairs)} |->
            pairs[CHOOSE i \in 1..Len(pairs) : pairs[i][1] = k][2]] :
        n \in TaskField("name", TaskNames), s \in TaskField("progressStatus", TaskStatuses),
        d \in TaskField("description", TaskDescriptions),
        u \in TaskField("dueDate", TaskDueDates)}

\* what the endpoint may do with the request of the analyzer
MeetingCompletions ==
    Completions \cup
    {Response(200, "OK", TRUE, TRUE,
              <<PyStr("Here: {\"suggested_title\": \"Sync\", \"suggested_duration\": 20}")>>,
              TRUE, 42)}

\* handle_analysis_request(task_data, analyzer) is called and returns or raises
HandleAnalysisRequest ==
    /\ meeting_pc = "called"
    /\ \E c \in MeetingCompletions :
           /\ completion' = (IF analyzer = "None" THEN Unset ELSE c)
           /\ analysis_result' = handle_analysis_request(task_data, analyzer, c)
    /\ meeting_pc' = "done"
    /\ UNCHANGED <<task_data, analyzer>>
    /\ UNCHANGED <<retrievalVars, formatted, system_message, reply, envelope, cleanVars, pc>>
    /\ UNCHANGED <<sessionVars, mainVars>>

InitMeeting ==
    /\ rev = "chatbot_api"
    /\ query = ""
    /\ max_results = MAX_RESULTS_EACH
    /\ store = FullStore
    /\ fault = {}
    /\ pc = "start"
    /\ intent = NoIntent
    /\ calls = << >>
    /\ results = << >>
    /\ verbose = FALSE
    /\ NothingFormatted /\ NothingCleaned
    /\ NoSession /\ NoMain
    /\ task_data \in TaskData
    /\ analyzer \in {"None", "MeetingAnalyzer"}
    /\ analysis_result = Unset
    /\ meeting_pc = "called"

NextMeeting == HandleAnalysisRequest

SpecMeeting == InitMeeting /\ [][NextMeeting]_vars

(* ------------------- properties: intent classification ----------------- *)

\* the status sub-groups in the order the claims give them
StatusOrder == <<"In Progress", "ToDo", "Done", "Review">>

\* the keyword groups of a revision
TaskKeywords(r) == IF r = "chatbot_api" THEN api_task_keywords ELSE chatbot_task_keywords
UserKeywords(r) == IF r = "chatbot_api" THEN api_user_keywords ELSE chatbot_user_keywords
ForumKeywords(r) ==
    IF r = "chatbot_api" THEN api_forum_keywords
    ELSE chatbot_specific_forum_keywords \cup chatbot_post_keywords
StatusKeywords(r, status) ==
    LET m == IF r = "chatbot_api" THEN api_status_map ELSE chatbot_status_map
    IN (CHOOSE e \in Range(m) : e.status = status).keywords

\* the statuses with a keyword in ql
StatusesNamed(r, ql) == {st \in Range(StatusOrder) : AnyIn(StatusKeywords(r, st), ql)}

\* the groups in the one order Task, User, Forum/Post, Comment
ClaimedGroups(r) ==
    << [type |-> "tasks", keywords |-> TaskKeywords(r)],
       [type |-> "users", keywords |-> UserKeywords(r)],
       [type |-> "posts", keywords |-> ForumKeywords(r)],
       [type |-> "comments", keywords |-> comment_keywords] >>

\* the groups in the order each revision tests them
PriorityGroups(r) ==
    IF r = "chatbot_api" THEN ClaimedGroups(r)
    ELSE << [type |-> "posts", keywords |-> chatbot_specific_forum_keywords],
            [type |-> "tasks", keywords |-> chatbot_task_keywords],
            [type |-> "users", keywords |-> chatbot_user_keywords],
            [type |-> "posts", keywords |-> chatbot_post_keywords],
            [type |-> "comments", keywords |-> comment_keywords] >>

GroupsHit(groups, ql) == {i \in 1..Len(groups) : AnyIn(groups[i].keywords, ql)}

\* the type of the first group with a keyword in ql, 'general' when there is none
FirstGroupType(groups, ql) ==
    LET hits == GroupsHit(groups, ql)
    IN IF hits = {} THEN "general"
       ELSE groups[CHOOSE i \in hits : \A j \in hits : i <= j].type

Classified == pc # "start"

\* C1 as stated: in both revisions the type is that of the first group, in the
\* order Task, User, Forum/Post, Comment, with a keyword in the lower-cased
\* query, and 'general' exactly when no group has one.
C1_FirstGroupInClaimedOrder ==
    Classified => intent.type = FirstGroupType(ClaimedGroups(rev), lower(query))

\* C1 amended: the type is one of the five, that of the first group with a
\* keyword in the lower-cased query in the order the revision tests them:
\* Task, User, Forum/Post, Comment in chatbot_api.py; the specific forum
\* keywords, then Task, User, Post, Comment in chatbot.py; 'general' exactly
\* when no group has a keyword in the query.
C1_FirstGroupInRevisionOrder ==
    Classified =>
        /\ intent.type \in IntentTypes
        /\ intent.type = FirstGroupType(PriorityGroups(rev), lower(query))
        /\ intent.type = "general" <=> GroupsHit(PriorityGroups(rev), lower(query)) = {}

C1_Witness ==
    /\ pc = "classified"
    /\ Cardinality(GroupsHit(PriorityGroups(rev), lower(query))) >= 3
    /\ rev = "chatbot"
    /\ intent.type = "posts"

\* C2 as stated: a query with a Task-keyword and no status keyword is
\* classified 'tasks' with empty filters, whatever else it contains.
C2_TaskKeywordNoStatus ==
    (Classified /\ AnyIn(TaskKeywords(rev), lower(query))
                /\ StatusesNamed(rev, lower(query)) = {})
        => intent.type = "tasks" /\ DOMAIN intent.filters = {}

\* C2 amended: a query with a Task-keyword and no status keyword (and, in
\* chatbot.py, none of the specific forum keywords, which are tested first)
\* is classified 'tasks' with empty filters, whatever user, post or comment
\* keywords it also contains.
C2_TaskKeywordNoStatusNoSpecificForum ==
    (Classified /\ AnyIn(TaskKeywords(rev), lower(query))
                /\ StatusesNamed(rev, lower(query)) = {}
                /\ (rev = "chatbot" => ~AnyIn(chatbot_specific_forum_keywords, lower(query))))
        => intent.type = "tasks" /\ DOMAIN intent.filters = {}

C2_Witness ==
    /\ pc = "classified"
    /\ AnyIn(TaskKeywords(rev), lower(query))
    /\ AnyIn(UserKeywords(rev), lower(query))
    /\ AnyIn(ForumKeywords(rev), lower(query))
    /\ StatusesNamed(rev, lower(query)) = {}
    /\ intent.type = "tasks" /\ DOMAIN intent.filters = {}

\* C3 as stated: a query with a Task-keyword and a Done-status keyword gets
\* filters.progressStatus = 'Done'.
C3_DoneKeywordGivesDone ==
    (Classified /\ AnyIn(TaskKeywords(rev), lower(query))
                /\ "Done" \in StatusesNamed(rev, lower(query)))
        => /\ "progressStatus" \in DOMAIN intent.filters
           /\ intent.filters["progressStatus"] = "Done"

\* C3 amended: a query with a Task-keyword and a Done-status keyword, and
\* with no In Progress or ToDo keyword (and, in chatbot.py, none of the
\* specific forum keywords), gets filters.progressStatus = 'Done'.
C3_DoneKeywordGivesDoneUnlessEarlierStatus ==
    (Classified /\ AnyIn(TaskKeywords(rev), lower(query))
                /\ "Done" \in StatusesNamed(rev, lower(query))
                /\ "In Progress" \notin StatusesNamed(rev, lower(query))
                /\ "ToDo" \notin StatusesNamed(rev, lower(query))
                /\ (rev = "chatbot" => ~AnyIn(chatbot_specific_forum_keywords, lower(query))))
        => /\ "progressStatus" \in DOMAIN intent.filters
           /\ intent.filters["progressStatus"] = "Done"

C3_Witness ==
    /\ pc = "classified"
    /\ AnyIn(TaskKeywords(rev), lower(query))
    /\ {"Done", "Review"} \subseteq StatusesNamed(rev, lower(query))
    /\ Contains("selesai", lower(query))
    /\ intent.filters = Mapping({"progressStatus"}, "Done")

\* C4: when a query classified 'tasks' has keywords of two or more status
\* sub-groups, filters holds the one key progressStatus, bound to the first
\* of the named statuses in the order In Progress, ToDo, Done, Review.
C4_FirstStatusInOrder ==
    (Classified /\ intent.type = "tasks"
                /\ Cardinality(StatusesNamed(rev, lower(query))) >= 2)
        => LET named == {i \in 1..Len(StatusOrder) :
                            StatusOrder[i] \in StatusesNamed(rev, lower(query))}
               first == CHOOSE i \in named : \A j \in named : i <= j
           IN /\ DOMAIN intent.filters = {"progressStatus"}
              /\ intent.filters["progressStatus"] = StatusOrder[first]

C4_Witness ==
    /\ pc = "classified"
    /\ intent.type = "tasks"
    /\ {"ToDo", "Done", "Review"} \subseteq StatusesNamed(rev, lower(query))
    /\ intent.filters = Mapping({"progressStatus"}, "ToDo")

(* ------------------------- properties: retrieval ----------------------- *)

Retrieved == pc = "retrieved"

OfType(rs, t) == SelectSeq(rs, LAMBDA r : r.type = t)

CollsOf(cs) == [i \in 1..Len(cs) |-> cs[i].coll]
LimitsOf(cs) == [i \in 1..Len(cs) |-> cs[i].limit]

\* classification and retrieval of either revision, as functions of their inputs
IntentOf(r, q) ==
    IF r = "chatbot_api" THEN api_analyze_query_intent(q) ELSE chatbot_analyze_query_intent(q)
CallsOf(r, q, it, n, st, flt) ==
    IF r = "chatbot_api" THEN api_search_calls(q, it, n, st, flt)
    ELSE chatbot_search_calls(q, it, n, st, flt)
Retrieve(r, q, it, n, st, flt) ==
    IF r = "chatbot_api" THEN api_search_database(q, it, n, st, flt)
    ELSE chatbot_search_with_intent(q, it, n, st, flt)

\* the tasks of the store the task search of the revision selects, in store order
MatchingTasks ==
    SelectSeq(store.tasks,
              LAMBDA item : IF rev = "chatbot_api"
                            THEN api_task_match(item, query, intent.filters)
                            ELSE chatbot_task_match(item, query, intent.filters))

C6_FirstMatchingTasksOnly ==
    (Retrieved /\ intent.type = "tasks" /\ fault = {} /\ Len(MatchingTasks) > max_results)
        => /\ Len(results) = max_results
           /\ \A i \in 1..Len(results) :
                 results[i].type = "task" /\ results[i].name = MatchingTasks[i].name

\* C6 amended: under the same conditions, chatbot_api.py returns exactly the
\* first max_results matching tasks in store order and nothing else;
\* chatbot.py returns max_results records that begin with the posts its first
\* sub-query found for the query text, the first matching tasks in store
\* order filling the places that remain.
C6_FirstMatchingTasksAfterPosts ==
    (Retrieved /\ intent.type = "tasks" /\ fault = {} /\ Len(MatchingTasks) > max_results)
        => LET posts == IF rev = "chatbot" THEN Take(calls[1].out, max_results) ELSE << >>
               k == Len(posts)
           IN /\ Len(results) = max_results
              /\ \A i \in 1..k : results[i] = posts[i] /\ results[i].type = "post"
              /\ \A i \in (k + 1)..Len(results) :
                    results[i].type = "task" /\ results[i].name = MatchingTasks[i - k].name

C6_Witness ==
    /\ Retrieved /\ rev = "chatbot_api" /\ intent.type = "tasks" /\ fault = {}
    /\ max_results >= 1
    /\ Len(MatchingTasks) > max_results
    /\ Len(results) = max_results
    /\ store.posts # << >>

\* C7 as stated: for intent 'tasks' with non-empty filters, another query
\* text with the same filters gives the same result on the same store with
\* the same max_results.
C7_ResultIgnoresQueryText ==
    (Retrieved /\ intent.type = "tasks" /\ DOMAIN intent.filters # {})
        => \A q2 \in SearchQueries :
              IntentOf(rev, q2) = intent
                  => Retrieve(rev, q2, intent, max_results, store, fault) = results

\* C7 amended: in chatbot_api.py the result for intent 'tasks' with non-empty
\* filters is the same for every query text with these filters; in chatbot.py
\* this holds of the list the task sub-query returns, while the result also
\* holds, first, the posts found for the query text.
C7_TaskSearchIgnoresQueryText ==
    (Retrieved /\ intent.type = "tasks" /\ DOMAIN intent.filters # {})
        => \A q2 \in SearchQueries :
              IntentOf(rev, q2) = intent
                  => IF rev = "chatbot_api"
                     THEN Retrieve(rev, q2, intent, max_results, store, fault) = results
                     ELSE /\ Len(calls) = 2 /\ calls[2].coll = "tasks"
                          /\ chatbot_search_tasks_enhanced(q2, intent.filters, max_results,
                                                           store, fault).out = calls[2].out
                          /\ results = Take(calls[1].out \o calls[2].out, max_results)

C7_Witness ==
    /\ Retrieved /\ rev = "chatbot_api" /\ intent.type = "tasks"
    /\ query = "Tugas selesai"
    /\ intent.filters = Mapping({"progressStatus"}, "Done")
    /\ IntentOf(rev, "task done") = intent
    /\ results # << >>
    /\ \A i \in 1..Len(results) : ~Contains(lower(query), lower(results[i].name))
                                  /\ ~Contains(lower(query), lower(results[i].description))

\* C8 as stated: for intent 'general' the sub-queries are tasks, users and
\* posts, each bounded by max_results \div 3 records, the result is their
\* results in that order, and no comment is queried or returned.
C8_GeneralFanOutInThirds ==
    (Retrieved /\ intent.type = "general")
        => /\ CollsOf(calls) = <<"tasks", "users", "posts">>
           /\ \A i \in 1..Len(calls) :
                 calls[i].limit = max_results \div 3 /\ Len(calls[i].out) <= max_results \div 3
           /\ results = Outs(calls)
           /\ OfType(results, "comment") = << >>

\* C8 amended: for intent 'general', chatbot_api.py issues the sub-queries
\* tasks, users, posts, each with the limit max_results \div 3, and never
\* queries or returns a comment; when that limit is at least 1 each sub-query
\* returns at most that many records and the result is their concatenation
\* in that order; when it is 0 the tasks and posts sub-queries return nothing,
\* the users sub-query is unlimited and the result is its first max_results
\* records. chatbot.py issues posts (limit max_results \div 2), tasks,
\* comments, users (limit 2 each) and returns the first max_results of their
\* concatenation, comments included.
C8_GeneralFanOutPerRevision ==
    (Retrieved /\ intent.type = "general")
        => IF rev = "chatbot_api"
           THEN /\ CollsOf(calls) = <<"tasks", "users", "posts">>
                /\ \A i \in 1..Len(calls) : calls[i].limit = max_results \div 3
                /\ OfType(results, "comment") = << >>
                /\ max_results \div 3 >= 1 =>
                      /\ \A i \in 1..Len(calls) : Len(calls[i].out) <= max_results \div 3
                      /\ results = Outs(calls)
                /\ max_results \div 3 = 0 =>
                      /\ calls[1].out = << >> /\ calls[3].out = << >>
                      /\ results = Take(calls[2].out, max_results)
           ELSE /\ CollsOf(calls) = <<"posts", "tasks", "comments", "users">>
                /\ LimitsOf(calls) = <<max_results \div 2, chatbot_general_limit,
                                       chatbot_general_limit, chatbot_general_limit>>
                /\ results = Take(Outs(calls), max_results)

C8_Witness ==
    /\ Retrieved /\ rev = "chatbot_api" /\ intent.type = "general"
    /\ query = "login"
    /\ OfType(results, "task") # << >>
    /\ OfType(results, "user") # << >>
    /\ OfType(results, "post") # << >>
    /\ store.comments # << >>

\* C9: every sub-query returns to retrieval without raising; one whose
\* collection faults contributes the empty list; the others are issued all
\* the same and select the records they select without the fault (in
\* chatbot_api.py, and in chatbot.py unless the users collection faults, the
\* very same records); the result is built from the lists so obtained.
C9_FaultsAbsorbedPerSubQuery ==
    Retrieved =>
        LET clean == CallsOf(rev, query, intent, max_results, store, {})
        IN /\ Len(calls) = Len(clean)
           /\ \A i \in 1..Len(calls) :
                 /\ ~calls[i].raised
                 /\ calls[i].coll = clean[i].coll
                 /\ calls[i].coll \in fault => calls[i].out = << >>
                 /\ calls[i].coll \notin fault =>
                       /\ Len(calls[i].out) = Len(clean[i].out)
                       /\ (rev = "chatbot_api" \/ "users" \notin fault)
                             => calls[i].out = clean[i].out
           /\ results = Take(IF rev = "chatbot" /\ intent.type = "posts"
                             THEN calls[2].out ELSE Outs(calls), max_results)

C9_Witness ==
    /\ Retrieved
    /\ Len(calls) >= 3
    /\ calls[1].coll \in fault
    /\ Len(CallsOf(rev, query, intent, max_results, store, {})[1].out) > 0
    /\ \E i \in 2..Len(calls) : calls[i].coll \notin fault /\ calls[i].out # << >>
    /\ results # << >>

\* the generic user query the claims name
GenericUserQuery == Retrieved /\ intent.type = "users" /\ lower(query) = "user"

\* C10 as stated: for intent 'users' with the generic query 'user' (no
\* fault of the users collection), the user records returned are the users of
\* the collection, unfiltered, as many as it holds up to max_results, and the
\* result is not empty when the collection is not (and max_results >= 1).
C10_GenericQueryUnfilteredUpToMax ==
    (GenericUserQuery /\ "users" \notin fault)
        => /\ Len(OfType(results, "user")) = Min(Len(store.users), max_results)
           /\ \A i \in 1..Len(OfType(results, "user")) :
                 OfType(results, "user")[i].email = Get(store.users[i], "email", "")
           /\ (store.users # << >> /\ max_results >= 1) => results # << >>

\* C10 amended: in chatbot_api.py, for intent 'users' with the generic query
\* 'user' and no fault of the users collection, search_users selects users
\* without any filter; the result begins with the first max_results \div 2
\* users of the collection (with all of them when max_results \div 2 = 0),
\* cut to max_results, and is not empty when the collection is not and
\* max_results >= 1. In chatbot.py search_users has no unfiltered case: every
\* user returned has the query text in its name or email, and none may be.
C10_GenericQueryPerRevision ==
    (GenericUserQuery /\ "users" \notin fault)
        => IF rev = "chatbot_api"
           THEN LET page == Take(CursorLimit(store.users, max_results \div 2), max_results)
                IN /\ Len(OfType(results, "user")) = Len(page)
                   /\ \A i \in 1..Len(page) :
                         /\ results[i].type = "user"
                         /\ results[i].email = Get(store.users[i], "email", "")
                   /\ (store.users # << >> /\ max_results >= 1) => results # << >>
           ELSE \A i \in 1..Len(results) :
                   results[i].type = "user"
                       => \/ Contains(lower(query), lower(results[i].name))
                          \/ Contains(lower(query), lower(results[i].email))

C10_Witness ==
    /\ GenericUserQuery /\ rev = "chatbot_api" /\ fault = {}
    /\ Len(store.users) >= 2
    /\ Len(OfType(results, "user")) = 2
    /\ \E i \in 1..Len(results) :
          /\ results[i].type = "user"
          /\ ~Contains("user", lower(results[i].name))
          /\ ~Contains("user", lower(results[i].email))

\* a user record of the result is one search_users of the revision formats
\* from a user of the store that its filter selects for the query
SelectedUserRecord(r) ==
    \E u \in Range(store.users) :
        IF rev = "chatbot_api"
        THEN r = api_format_user(u) /\ api_user_match(u, query)
        ELSE r = chatbot_format_user(u) /\ chatbot_user_match(u, query)

\* the query text is part of one of the fields of the document, letter case
\* ignored
TextIn(item, fields) ==
    \E f \in fields : f \in DOMAIN item /\ Contains(lower(query), lower(item[f]))

\* C11 as stated: for intent 'users' every record of the result is a user
\* record, of a user of the store whose name, username or email holds the
\* query text; no task, post or comment record is returned.
C11_UsersIntentOnlyUsers ==
    (Retrieved /\ intent.type = "users")
        => \A i \in 1..Len(results) :
              /\ results[i].type = "user"
              /\ \E u \in Range(store.users) :
                    /\ results[i].email = Get(u, "email", "")
                    /\ TextIn(u, {"name", "username", "email"})

\* C11 amended: for intent 'users' no comment record is returned. In
\* chatbot_api.py the result holds user records, then task records, and no
\* post: the users are those search_users selects (every user for an empty
\* or generic query, else those with the query text in name, username or
\* email), the tasks those search_tasks selects for the query text without
\* filters. In chatbot.py the result holds post records (title or body holds
\* the query text), then user records (name or email holds it; the username
\* is not searched), and no task.
C11_UsersIntentPerRevision ==
    (Retrieved /\ intent.type = "users")
        => LET first == IF rev = "chatbot_api" THEN "user" ELSE "post"
               second == IF rev = "chatbot_api" THEN "task" ELSE "user"
           IN /\ \A i \in 1..Len(results) : results[i].type \in {first, second}
              /\ \A i, j \in 1..Len(results) :
                    (i < j /\ results[i].type = second) => results[j].type = second
              /\ \A i \in 1..Len(results) :
                    /\ results[i].type = "user" =>
                          /\ SelectedUserRecord(results[i])
                          /\ \E u \in Range(store.users) :
                                /\ results[i].email = Get(u, "email", "")
                                /\ \/ rev = "chatbot_api" /\ api_user_filter_is_empty(query)
                                   \/ TextIn(u, IF rev = "chatbot_api"
                                                THEN {"name", "username", "email"}
                                                ELSE {"name", "email"})
                    /\ results[i].type = "task" =>
                          \E t \in Range(store.tasks) :
                             /\ results[i] = api_format_task(t, store)
                             /\ api_task_match(t, query, EmptyMapping)
                    /\ results[i].type = "post" =>
                          \E p \in Range(store.posts) :
                             /\ results[i] = chatbot_format_post(p, store, fault)
                             /\ TextIn(p, {"title", "body"})

C11_Witness ==
    /\ Retrieved /\ rev = "chatbot_api" /\ intent.type = "users" /\ fault = {}
    /\ OfType(results, "user") # << >>
    /\ OfType(results, "task") # << >>
    /\ results[Len(results)].type = "task"

\* the task records the task sub-queries returned
TaskRecords == {r \in Range(Outs(calls)) : r.type = "task"}

\* the task of the store a task record was formatted from (names are unique)
TaskOf(r) == CHOOSE t \in Range(store.tasks) : t.name = r.name

\* the references of a task's assignTo list, none when the field is absent
RefsOf(t) == Get(t, "assignTo", << >>)

\* a reference resolves when a user of the store has this id
Resolves(oid) == \E u \in Range(store.users) : u.id = oid

\* the display names of the references that resolve, in list order
ResolvedNames(t) ==
    LET refs == SelectSeq(RefsOf(t), Resolves)
    IN [i \in 1..Len(refs) |->
           DisplayName(CHOOSE u \in Range(store.users) : u.id = refs[i], "Unknown")]

\* C12 as stated: the assignee of every task returned by task search is
\* 'Unassigned' when the assignTo list is empty or absent or none of its
\* references resolves, else the comma-joined display names of the resolved
\* users only.
C12_AssigneeOfResolvedOnly ==
    Retrieved =>
        \A r \in TaskRecords :
            r.assignee = IF ResolvedNames(TaskOf(r)) = << >> THEN "Unassigned"
                         ELSE Join(ResolvedNames(TaskOf(r)), ", ")

\* C12 amended: in chatbot_api.py the assignee is as stated. In chatbot.py
\* it is 'Unassigned' only when the assignTo list is empty or absent; else it
\* is the comma-joined list of one name per reference, in list order: the
\* display name of the user the reference resolves to, and 'Unknown User' for
\* a reference that does not resolve or whose lookup raises.
C12_AssigneePerRevision ==
    Retrieved =>
        \A r \in TaskRecords :
            LET t == TaskOf(r)
                named == [i \in 1..Len(RefsOf(t)) |->
                             IF Resolves(RefsOf(t)[i]) /\ "users" \notin fault
                             THEN ResolvedNames([assignTo |-> <<RefsOf(t)[i]>>])[1]
                             ELSE "Unknown User"]
            IN r.assignee =
                  IF rev = "chatbot_api"
                  THEN IF ResolvedNames(t) = << >> THEN "Unassigned"
                       ELSE Join(ResolvedNames(t), ", ")
                  ELSE IF RefsOf(t) = << >> THEN "Unassigned" ELSE Join(named, ", ")

C12_Witness ==
    /\ Retrieved /\ rev = "chatbot_api"
    /\ \E r \in TaskRecords :
          /\ Len(RefsOf(TaskOf(r))) = 3
          /\ Len(ResolvedNames(TaskOf(r))) = 2
          /\ r.assignee = "amelya, Super User"
    /\ \E r \in TaskRecords : "assignTo" \notin DOMAIN TaskOf(r) /\ r.assignee = "Unassigned"

(* ------------------------- properties: formatting ---------------------- *)

Formatted == pc = "formatted"

IsSuffix(p, s) == Len(p) <= Len(s) /\ SubSeq(s, Len(s) - Len(p) + 1, Len(s)) = p

NoDuplicate(l) == \A i, j \in 1..Len(l) : i # j => l[i] # l[j]

\* the sources of what the formatter returned, none for a bare string
SourcesReturned == IF formatted.pair THEN formatted.sources ELSE << >>

\* C13 as stated: formatting an empty result list returns the pair of the
\* empty context and the empty list of sources, for every intent type.
C13_EmptyResultsGivePair ==
    (Formatted /\ results = << >>) => formatted = Pair("", << >>)

\* C13 amended: for an empty result list and every intent type,
\* format_context of chatbot_api.py returns the pair ("", []), and
\* format_context_from_results of chatbot.py returns the bare empty string,
\* not a pair.
C13_EmptyResultsPerRevision ==
    (Formatted /\ results = << >>)
        => IF rev = "chatbot_api" THEN formatted = Pair("", << >>) ELSE formatted = Bare("")

C13_Witness ==
    /\ Formatted /\ results = << >> /\ rev = "chatbot_api" /\ intent.type = "posts"
    /\ formatted.pair /\ formatted.context = "" /\ formatted.sources = << >>

\* one task result, unassigned and without description, formatted for the
\* intent type tasks
SingleBareTask ==
    /\ Formatted /\ intent.type = "tasks"
    /\ Len(results) = 1 /\ results[1].type = "task"
    /\ results[1].assignee = "Unassigned" /\ results[1].description = ""

\* C14 as stated: the context of such a result is exactly the bullet, the
\* name and the status in parentheses: nothing before the bullet, nothing
\* after the status.
C14_ExactlyBulletNameStatus ==
    SingleBareTask
        => formatted.context =
               Bullet \o " " \o results[1].name \o " (" \o results[1].progressStatus \o ")"

\* C14 amended: the context of such a result is one line that ends with the
\* name and the status in parentheses, no assignee or description clause
\* following; chatbot_api.py puts 'Task: ' between the bullet and the name,
\* chatbot.py puts the line 'Task Information:' before the bullet.
C14_BulletLinePerRevision ==
    SingleBareTask
        => formatted.context =
               (IF rev = "chatbot_api" THEN Bullet \o " Task: "
                ELSE "Task Information:\n" \o Bullet \o " ")
                   \o results[1].name \o " (" \o results[1].progressStatus \o ")"

C14_Witness ==
    /\ SingleBareTask /\ rev = "chatbot_api"
    /\ results[1].name = "Fix login" /\ results[1].progressStatus = "In Progress"
    /\ IsSuffix("Fix login (In Progress)", formatted.context)

\* the attribution label of a result
LabelOf(r) ==
    IF r.type = "task" THEN "Tasks Database"
    ELSE IF r.type = "user" THEN "User Directory"
    ELSE IF r.type = "post" THEN "Forum by " \o r.author
    ELSE "Comments by " \o r.author

\* the results the formatter rendered: all of them in chatbot_api.py, those
\* of the intent's type (all for comments and general) in chatbot.py
RenderedResults ==
    {i \in 1..Len(results) : rev = "chatbot_api" \/ chatbot_renders(results[i], intent.type)}

\* the bullets of a text
Bullets(s) == {i \in 1..Len(s) : SubSeq(s, i, i) = Bullet}

\* C15: the sources returned hold no label twice, and as a set they are the
\* labels of the results rendered into the context, each of which has its
\* bullet there.
C15_SourcesAreRenderedLabels ==
    Formatted =>
        /\ NoDuplicate(SourcesReturned)
        /\ Range(SourcesReturned) = {LabelOf(results[i]) : i \in RenderedResults}
        /\ Cardinality(Bullets(formatted.context)) = Cardinality(RenderedResults)

C15_Witness ==
    /\ Formatted /\ Len(results) = 2 /\ RenderedResults = {1, 2}
    /\ results[1] # results[2]
    /\ LabelOf(results[1]) = LabelOf(results[2])
    /\ formatted.sources = <<"Forum by amelya">>

\* one task result formatted
SingleTask == Formatted /\ Len(results) = 1 /\ results[1].type = "task"

\* a description as the claim shows it: cut to 50 characters and '...' when
\* longer, else unchanged
Shown(d) == IF Len(d) > 50 THEN SubSeq(d, 1, 50) \o "..." ELSE d

\* the descriptions that are shown: not empty, longer than 5 characters, not
\* a placeholder
Meaningful(d) == d # "" /\ Len(d) > 5 /\ d \notin chatbot_placeholder_descriptions

\* C16 as stated: the line of a formatted task ends with its description
\* exactly when the description is meaningful, cut to 50 characters and
\* '...' when it is longer and unchanged otherwise.
C16_DescriptionAppendedWhenMeaningful ==
    SingleTask =>
        LET d == results[1].description
        IN Meaningful(d) <=> IsSuffix(" - " \o Shown(d), formatted.context)

\* C16 amended: only format_context_from_results of chatbot.py, for the
\* intent type tasks, appends the description: stripped of surrounding white
\* space, and when what remains is meaningful; the sentence 'Team needs to
\* tidy up documentation of the project code' in it is first shortened to
\* 'Team needs to tidy up project code docs', and the text is then cut to 50
\* characters and '...' when longer. chatbot_api.py, and chatbot.py for every
\* other intent type, never append the description.
C16_DescriptionPerRevision ==
    SingleTask =>
        LET d == Strip(results[1].description)
            e == Replace(d, "Team needs to tidy up documentation of the project code",
                         "Team needs to tidy up project code docs")
        IN IF rev = "chatbot" /\ intent.type = "tasks"
           THEN /\ Meaningful(d) <=> IsSuffix(" - " \o Shown(e), formatted.context)
                /\ (Meaningful(d) /\ Len(e) <= 50) => IsSuffix(" - " \o e, formatted.context)
                /\ (Meaningful(d) /\ Len(e) > 50)
                      => IsSuffix(" - " \o SubSeq(e, 1, 50) \o "...", formatted.context)
           ELSE /\ ~IsSuffix(" - " \o Shown(e), formatted.context)
                /\ Len(d) > 5 => ~Contains(SubSeq(d, 1, 6), formatted.context)

C16_Witness ==
    /\ SingleTask /\ rev = "chatbot" /\ intent.type = "tasks"
    /\ Len(Strip(results[1].description)) > 50
    /\ results[1].description = Strip(results[1].description)
    /\ IsSuffix(" - " \o SubSeq(results[1].description, 1, 50) \o "...", formatted.context)

\* the values of progressStatus
Statuses == {"ToDo", "In Progress", "Review", "Done"}

\* C27: after analyze_query_intent the filters are non-empty only if the type
\* is 'tasks', and then hold the one key progressStatus with one of the four
\* statuses; for the types users, posts, comments and general they are empty.
C27_FiltersOnlyForTasks ==
    Classified =>
        /\ intent.type \in IntentTypes
        /\ intent.type # "tasks" => intent.filters = EmptyMapping
        /\ intent.filters # EmptyMapping =>
               /\ DOMAIN intent.filters = {"progressStatus"}
               /\ intent.filters["progressStatus"] \in Statuses

\* a query with a status keyword and no task keyword has been classified,
\* without filters
C27_Witness ==
    /\ Classified
    /\ intent.type \in {"users", "posts", "comments", "general"}
    /\ \E i \in 1..Len(api_status_map) : AnyIn(api_status_map[i].keywords, lower(query))
    /\ intent.filters = EmptyMapping

(* --------------------------- properties: chat -------------------------- *)

\* chat has returned its dict
Replied == pc \in {"returned", "done"}

\* handle_chat_request has returned its envelope
Handled == pc = "done"

Preamble(r) == IF r = "chatbot_api" THEN api_preamble ELSE chatbot_preamble

\* what the system message holds after the preamble
Appended == SubSeq(system_message, Len(Preamble(rev)) + 1, Len(system_message))

\* the heading the context is embedded under, and the one of the source list
BlockHeading(r) ==
    IF r = "chatbot_api" THEN "WORKSPACE DATA:\n" ELSE "DATA FROM YOUR WORKSPACE:\n"
SourcesHeading(r) == IF r = "chatbot_api" THEN "\n\nSources: " ELSE "\n\nDetailed Sources: "

\* the system message embeds the formatted context and, after it, the sources
HasBlock ==
    /\ IsPrefix(Preamble(rev), system_message)
    /\ Contains(BlockHeading(rev) \o formatted.context \o SourcesHeading(rev)
                    \o Join(chatbot_detailed_sources(formatted), ", "),
                Appended)

\* the system message says that no workspace data was found
HasNotice ==
    /\ IsPrefix(Preamble(rev), system_message)
    /\ Contains(IF rev = "chatbot_api" THEN "No workspace data found."
                ELSE "No specific workspace data found for this query.",
                Appended)

\* the except clause of chat made the dict
ChatFailed == "error" \in DOMAIN reply

\* C17, the statement checked: the system message holds the context block
\* with the source list exactly when the formatted context is not empty, and
\* the notice exactly when it is empty; has_context of the returned dict is
\* true exactly in the first case.
C17_HasContextIffBlock ==
    Replied => /\ HasBlock <=> formatted.context # ""
               /\ HasNotice <=> formatted.context = ""
               /\ reply.has_context <=> formatted.context # ""

\* C17: the system message holds the context block with the source list
\* exactly when the formatted context is not empty, and the notice exactly
\* when it is empty. has_context of the returned dict is true exactly when the
\* context is not empty and the completion was read without an exception:
\* the except clause returns has_context False whatever was sent. In
\* chatbot.py a context without sources is sent with 'Internal Database' in
\* the place of the source list.
C17_HasContextIffBlockAndCompleted ==
    Replied => /\ HasBlock <=> formatted.context # ""
               /\ HasNotice <=> formatted.context = ""
               /\ reply.has_context <=> (formatted.context # "" /\ ~ChatFailed)
               /\ (/\ rev = "chatbot"
                   /\ formatted.context # ""
                   /\ chatbot_detailed_sources(formatted) = << >>)
                      => IsSuffix("Detailed Sources: Internal Database", system_message)

\* a context was sent, the completion failed, and has_context is False
C17_Witness ==
    /\ Replied
    /\ formatted.context # ""
    /\ HasBlock /\ ~HasNotice
    /\ ChatFailed
    /\ ~reply.has_context

\* the completion endpoint fails: no response, a status that is not 2xx, or
\* a payload without a text content in its first choice
CompletionFails ==
    \/ ~completion.sent
    \/ completion.status \notin 200..299
    \/ ~completion.json
    \/ ~completion.has_choices
    \/ completion.choices = << >>
    \/ completion.choices[1].py # "str"

\* what the request hands its caller: the envelope of handle_chat_request in
\* chatbot_api.py, the dict of chat in chatbot.py
Outcome == IF rev = "chatbot_api" THEN envelope ELSE reply

Finished == pc = (IF rev = "chatbot_api" THEN "done" ELSE "returned")

\* C18: when the completion endpoint fails, the request returns success true
\* (in the envelope), no sources, has_context false and an apology as the
\* answer; with verbose off the answer holds no detail of the failure, so it
\* is the same for every cause. (chatbot_api.py writes str(e) into the answer
\* whatever verbose is, and both revisions hand a null content on as the
\* answer of a successful request.)
C18_FailureGivesFixedApology ==
    (Finished /\ CompletionFails) =>
        /\ rev = "chatbot_api" => Outcome.success
        /\ Outcome.sources = << >>
        /\ ~Outcome.has_context
        /\ Outcome.answer.py = "str"
        /\ ~verbose => Outcome.answer \in
               {PyStr("I'm experiencing technical difficulties. Please try again."),
                PyStr("Technical issue occurred. Please try again.")}

\* C19: whatever the store and the completion endpoint do,
\* handle_chat_request returns an envelope with the fields success, answer,
\* sources, has_context and tokens, success true and a string as the answer.
\* (A completion whose content is null gives an envelope whose answer is
\* None.)
C19_EnvelopeAlwaysAnswers ==
    Handled => /\ {"success", "answer", "sources", "has_context", "tokens"}
                      \subseteq DOMAIN envelope
               /\ envelope.success
               /\ envelope.answer.py = "str"

\* C28: a response of chat made without a failure of the completion has
\* has_context true exactly if results were found, and sources exactly if
\* results were found; a response made after a failure has no sources,
\* has_context false and 0 tokens.
C28_ContextAndSourcesFollowResults ==
    Replied =>
        IF ChatFailed
        THEN reply.sources = << >> /\ ~reply.has_context /\ reply.tokens = 0
        ELSE /\ reply.results_found = Len(results)
             /\ reply.has_context <=> reply.results_found > 0
             /\ reply.sources # << >> <=> reply.results_found > 0

\* results were found and the completion was read: has_context and sources
C28_Witness ==
    /\ Replied
    /\ ~ChatFailed
    /\ reply.results_found > 0
    /\ reply.has_context
    /\ reply.sources # << >>

\* the sub-queries of cs that repeat an earlier one: the same collection is
\* read under the same search condition (the same query text and filters)
RepeatedQueries(cs) ==
    {p \in (1..Len(cs)) \X (1..Len(cs)) :
        /\ p[1] < p[2]
        /\ cs[p[1]].coll = cs[p[2]].coll
        /\ cs[p[1]].query = cs[p[2]].query
        /\ cs[p[1]].filters = cs[p[2]].filters}

\* a request sent to the completion endpoint is not sent again
RequestSentOnce == completion # Unset => completion' = completion

\* C24: within one chat call at most one request is sent to the completion
\* endpoint, and no collection is queried a second time under the same
\* search condition, whether the first query failed or not. (For the posts
\* intent search_with_intent of chatbot.py searches the posts twice under the
\* same condition, also when the first search failed.)
C24_NothingIssuedTwice ==
    [](RepeatedQueries(calls) = {}) /\ [][RequestSentOnce]_vars

\* the steps of one request, in their order
StepOrder ==
    << "start", "classified", "retrieved", "formatted", "asked", "returned", "done" >>

\* one step: the next position in StepOrder; sub-queries are issued by the
\* retrieval step only, the request is sent by the step after formatting
\* only, and the envelope is made by the last step only
InOrder ==
    /\ pc' # pc =>
           \E k \in 1..(Len(StepOrder) - 1) : pc = StepOrder[k] /\ pc' = StepOrder[k + 1]
    /\ calls' # calls => pc = "classified" /\ pc' = "retrieved"
    /\ completion' # completion => pc = "formatted" /\ pc' = "asked"
    /\ envelope' # envelope => pc = "returned" /\ pc' = "done"

\* C25: the steps of a chat message are classification, retrieval,
\* formatting, the completion request and sanitization, in this order: no
\* sub-query is issued after the request was sent, the request is sent also
\* when retrieval returned nothing, and the answer of the envelope is the
\* sanitized text chat returned.
C25_StepsInOrder ==
    /\ [][InOrder]_vars
    /\ [](pc \in {"asked", "returned", "done"} =>
              /\ completion \in Completions
              /\ system_message # "")
    /\ []((Handled /\ reply.answer.py = "str") =>
              envelope.answer = PyStr(clean_response_text(reply.answer.s)))

\* retrieval returned nothing, the request was sent all the same, and the
\* text chat returned had markup the envelope has no more
C25_Witness ==
    /\ Handled
    /\ results = << >>
    /\ completion \in Completions
    /\ reply.answer.py = "str"
    /\ envelope.answer # reply.answer
    /\ envelope.answer = PyStr(clean_response_text(reply.answer.s))

\* the call at hand and an earlier one had the same message and were given
\* the same reply by the endpoint
SameInputs(e) == e.query = query /\ e.completion = completion

\* what a first call on a new instance gives for a query: its intent, its
\* results, and its response for a context and a reply of the endpoint
FirstIntent(q) ==
    IF rev = "chatbot_api" THEN api_analyze_query_intent(q)
    ELSE chatbot_analyze_query_intent(q)

FirstResults(q) ==
    IF rev = "chatbot_api"
    THEN api_search_database(q, FirstIntent(q), max_results, store, fault)
    ELSE chatbot_search_with_intent(q, FirstIntent(q), max_results, store, fault)

FirstContexts(q) ==
    IF rev = "chatbot_api"
    THEN {f.context : f \in api_format_context(FirstResults(q), FirstIntent(q).type)}
    ELSE {f.context : f \in chatbot_format_context_from_results(FirstResults(q),
                                                                FirstIntent(q).type)}

FirstReply(q, f, c) ==
    IF rev = "chatbot_api"
    THEN api_chat(FirstIntent(q), FirstResults(q), f, c, verbose)
    ELSE chatbot_chat(FirstIntent(q), FirstResults(q), f, c, verbose)

\* C26: the response of a chat call depends on its query, the store and the
\* endpoint's reply alone: whatever was asked before on the same instance,
\* the intent, results, context and response of a call are those a first
\* call gives for the same query and the same reply of the endpoint, and
\* those of any earlier call that had the same query and the same reply.
C26_NoSessionMemory ==
    /\ Classified => intent = FirstIntent(query)
    /\ pc \in {"retrieved", "formatted", "asked", "returned"} =>
           results = FirstResults(query)
    /\ pc \in {"formatted", "asked", "returned"} =>
           FirstContexts(query) = {formatted.context}
    /\ pc = "returned" =>
           /\ reply = FirstReply(query, formatted, completion)
           /\ \A i \in 1..Len(earlier) :
                  SameInputs(earlier[i]) =>
                      /\ earlier[i].intent = intent
                      /\ earlier[i].results = results
                      /\ earlier[i].formatted.context = formatted.context
                      /\ earlier[i].reply = reply

\* a call that returned after a call with another query, which had filters
\* and other results
C26_Witness ==
    /\ pc = "returned"
    /\ earlier # << >>
    /\ ~ChatFailed
    /\ earlier[1].query # query
    /\ earlier[1].intent.filters # EmptyMapping
    /\ intent.filters = EmptyMapping
    /\ earlier[1].results # << >>
    /\ results # << >>
    /\ earlier[1].results # results
    /\ reply = FirstReply(query, formatted, completion)

\* main has come to its end
Exited == main_pc = "exit"

\* issuing a query changes issued: none is issued on a closed client
NoQueryOnceClosed == mongo_client = "closed" => issued' = issued

\* C29: in main of chatbot_api.py, when the chatbot was initialized its
\* client is closed when main ends, on every path; one JSON object is
\* printed per run; every store query is issued on the open client, and none
\* after the client is closed.
C29_ClosedOncePrintedOnce ==
    /\ [](Exited => /\ Len(printed) = 1
                    /\ chatbot = "MindVerseAI" => mongo_client = "closed")
    /\ [](Len(printed) <= 1 /\ \A i \in 1..Len(issued) : issued[i].open)
    /\ [][NoQueryOnceClosed]_vars

\* main ended with a chatbot that issued store queries, its client closed
C29_Witness ==
    /\ Exited
    /\ chatbot = "MindVerseAI"
    /\ mongo_client = "closed"
    /\ issued # << >>
    /\ Len(printed) = 1

\* handle_analysis_request has returned or raised
Analysed == meeting_pc = "done"

\* the analyzer ran and reported success
AnalyzerSucceeded ==
    /\ analyzer # "None"
    /\ ~analyze_task_for_meeting(task_data, completion).raised
    /\ analyze_task_for_meeting(task_data, completion).value.success

\* the title, duration and agenda of the status of the task
OfStatus(analysis) ==
    LET config == status_config(Get(task_data, "progressStatus", PyStr("In Progress")),
                                Get(task_data, "name", PyStr("Task")).s)
    IN /\ analysis.suggested_title = config.title
       /\ analysis.suggested_duration = config.duration
       /\ analysis.agenda = config.agenda

\* C30: handle_analysis_request never raises for task data that is a mapping
\* and returns success with an analysis: from the source 'openai' exactly
\* when the analyzer ran and reported success, and else the enhanced fallback
\* with tokens_used 0, a fallback_reason and the title, duration and agenda
\* of the task's status ('In Progress' for any other or missing status).
\* (A description that is a number, or a list of more than ten items, and a
\* status that is a list make the fallback raise, also in the except clause.)
C30_AlwaysAnAnalysis ==
    Analysed =>
        /\ ~analysis_result.raised
        /\ analysis_result.value.success
        /\ "analysis" \in DOMAIN analysis_result.value
        /\ analysis_result.value.source = "openai" <=> AnalyzerSucceeded
        /\ ~AnalyzerSucceeded =>
               /\ analysis_result.value.source = "enhanced_fallback"
               /\ analysis_result.value.tokens_used = 0
               /\ "fallback_reason" \in DOMAIN analysis_result.value
               /\ OfStatus(analysis_result.value.analysis)

(* ------------------------ properties: sanitization --------------------- *)

Cleaned == pc = "cleaned"

\* C20: clean_response_text is idempotent: cleaning a cleaned text changes
\* nothing, in chatbot_api.py and in meeting_api.py. (It is not: the marks of
\* inline code doubled around a text lose one pair per cleaning, and three
\* asterisks before an emphasised text leave an emphasis the next cleaning
\* removes.)
C20_Idempotent ==
    Cleaned => /\ clean_response_text(cleaned) = cleaned
               /\ meeting_clean_response_text(cleaned) = cleaned

\* the characters the expressions of clean_response_text act on
MarkupCharacters == {"*", "#", Backtick, "-", "+", ".", "\n", "\t"} \cup Digits

\* a text the expressions leave alone: no markup, white space only as single
\* blanks between other characters
Plain(x) ==
    /\ x # ""
    /\ \A i \in 1..Len(x) : Ch(x, i) \notin MarkupCharacters
    /\ Ch(x, 1) # " " /\ Ch(x, Len(x)) # " "
    /\ \A i \in 1..(Len(x) - 1) : ~(Ch(x, i) = " " /\ Ch(x, i + 1) = " ")

\* the text is a plain text between two marks
Emphasised(mark) ==
    /\ Len(text) > 2 * Len(mark)
    /\ IsPrefix(mark, text) /\ IsSuffix(mark, text)
    /\ Plain(SubSeq(text, Len(mark) + 1, Len(text) - Len(mark)))

\* C21: clean_response_text removes the marks of bold (**x**) and italic (*x*)
\* emphasis and keeps the text between them: '**bold** and *italic*' gives
\* 'bold and italic'; the empty text gives the empty text.
C21_EmphasisRemoved ==
    Cleaned =>
        /\ text = "" => cleaned = ""
        /\ text = "**bold** and *italic*" => cleaned = "bold and italic"
        /\ \A mark \in {"**", "*"} :
               Emphasised(mark) =>
                   cleaned = SubSeq(text, Len(mark) + 1, Len(text) - Len(mark))
        /\ cleaned = meeting_clean_response_text(text)

\* the text with both kinds of emphasis has been cleaned of them
C21_Witness ==
    /\ Cleaned
    /\ text = "**bold** and *italic*"
    /\ cleaned = "bold and italic"

\* the ways to cut the text into a plain line, three or more newlines and a
\* plain line: <<i, j>> for a first line that ends at i and a second that
\* starts at j
ParagraphBreaks ==
    {b \in (1..Len(text)) \X (1..Len(text)) :
        /\ b[2] - b[1] - 1 >= MinBlankRun
        /\ \A k \in (b[1] + 1)..(b[2] - 1) : Ch(text, k) = "\n"
        /\ Plain(SubSeq(text, 1, b[1]))
        /\ Plain(SubSeq(text, b[2], Len(text)))}

\* C22: two non-blank lines with three or more newlines between them in the
\* text come out of clean_response_text with exactly two newlines between
\* them. (They come out joined, with no newline between them: the trimming
\* of line ends and line starts removes both newlines that are left.)
C22_ParagraphBreakKept ==
    Cleaned =>
        \A b \in ParagraphBreaks :
            cleaned = SubSeq(text, 1, b[1]) \o "\n\n" \o SubSeq(text, b[2], Len(text))

\* the marks that start a list line, with or without a blank after them
ListMarkers == {m \o b : m \in ListMarks \cup {"1."}, b \in {"", " "}}

\* the item texts of a line read as a list line: its text after a list
\* marker, when that is plain (at most one)
ItemsOf(line) ==
    {SubSeq(line, Len(m) + 1, Len(line)) : m \in {k \in ListMarkers : IsPrefix(k, line)}}
        \cap {x \in {SubSeq(line, i, Len(line)) : i \in 1..Len(line)} : Plain(x)}

ItemOf(line) == CHOOSE x \in ItemsOf(line) : TRUE

\* the positions of the newlines that cut the text into two list lines
ListCuts ==
    {i \in 2..(Len(text) - 1) :
        /\ Ch(text, i) = "\n"
        /\ ItemsOf(SubSeq(text, 1, i - 1)) # {}
        /\ ItemsOf(SubSeq(text, i + 1, Len(text))) # {}}

\* C23: every line that starts with a hyphen, asterisk or plus mark or with a
\* number mark comes out of clean_response_text as the bullet, a blank and
\* the item text, also when lines with asterisk marks follow one another.
\* (Two asterisk marks on successive lines are taken for an emphasis and
\* removed, and both lines lose their bullets.)
C23_ListLinesBulleted ==
    Cleaned =>
        /\ ItemsOf(text) # {} => cleaned = Bullet \o " " \o ItemOf(text)
        /\ \A i \in ListCuts :
               cleaned = Bullet \o " " \o ItemOf(SubSeq(text, 1, i - 1)) \o "\n"
                             \o Bullet \o " " \o ItemOf(SubSeq(text, i + 1, Len(text)))

====
